---- MODULE Spec2Model ----
(***************************************************************************)
(* Session / audio lifecycle engine of the Nova voice assistant            *)
(* (src/hooks/useNova.ts, driven by src/App.tsx).                          *)
(*                                                                         *)
(* The hook runs on the browser's single-threaded event loop.  One action  *)
(* of this module is one event-loop task together with the microtasks it   *)
(* queues: a handler runs from its entry to its first await on real I/O.   *)
(* An await on a promise that is already resolved (stopWakeWord() when no  *)
(* detector exists, decodeAudioData(), which has no await of its own)      *)
(* resumes in a microtask, before any other task, so it does not split an  *)
(* action.  An await on real I/O (dynamic import, unsubscribe, worker      *)
(* creation, AudioContext.resume, the transport opening, getUserMedia)     *)
(* ends the action; its continuation is a separate action.                 *)
(*                                                                         *)
(* A ref is modelled by whether it holds an object (TRUE) or null (FALSE). *)
(* The connect() invocations in progress, the transports they opened and   *)
(* the startWakeWord() invocations in progress are kept as counts per      *)
(* await point: the callbacks of two invocations differ only in the        *)
(* objects their closures hold, which no guard of the hook reads.          *)
(*                                                                         *)
(* Time is counted in half seconds.  A sample value is an integer number   *)
(* of 1e-7 (1.0 is 10000000), and a buffer of samples is kept run-length   *)
(* encoded: a sequence of runs of n equal samples.                         *)
(***************************************************************************)
EXTENDS Integers, FiniteSets, Sequences

\* ------------------------------------------------------------------ bounds
MaxPending == 3       \* asynchronous operations outstanding at once
MaxSources == 3       \* playback units in the live set at once
MaxCount == 2         \* saturation of the history counters
MaxTime == 8          \* end of the output timeline that is followed
MaxBatch == 2         \* function calls in one toolCall
MaxLength == 6        \* samples in a buffer handed to downsampleTo16k
MaxHost == 3          \* characters after the scheme of a generated url
MaxArrivals == 3      \* fragments received where the await is followed
MaxFrames == 4        \* capture frames where the history of chunking is kept
MaxCleanups == 2      \* calls of cleanupAudio where it is followed on its own

\* ------------------------------------------------------- program constants
BUFFER_THRESHOLD == 4096
FrameSamples == 2048
RmsEpsilon == 10      \* 0.000001
TargetRate == 16000

VARIABLES
  \* configuration (process.env), fixed for a run
  apiKey,               \* API_KEY is set
  accessKey,            \* PICOVOICE_ACCESS_KEY is set
  \* React state and refs of useNova
  status,
  isWakeWordListening,
  isScreenSharing,
  screenStream,
  videoIntervalRef,
  currentTheme,
  inputAudioContextRef,
  outputAudioContextRef,
  inputSourceRef,
  processorRef,
  nextStartTimeRef,
  sourcesRef,           \* size of the live set
  audioBufferRef,       \* the accumulator, run-length encoded
  sessionRef,
  stopRef,
  isConnectingRef,
  retryCountRef,
  porcupineRef,         \* "null", "created" (not subscribed yet), "subscribed"
  \* the event loop: suspended invocations, transports, timers, clocks
  cpc,                  \* connect() invocations: await point -> how many
  transport,            \* transports: state -> how many
  micPending,           \* onopen invocations awaiting getUserMedia
  sw,                   \* startWakeWord() invocations: await point -> how many
  wakeTimers,           \* pending setTimeout(startWakeWord, 1000)
  reconnectTimers,      \* pending setTimeout(connect, 2000)
  now,                  \* currentTime of the newest output context
  \* what the latest step handed to the outside, in order: log entries,
  \* playback units started, media chunks and tool responses sent; and the
  \* server message it received, if it is an onmessage, or the frame, if it
  \* is an onaudioprocess.  Both are recorded only in a run that is observed.
  observe,
  emitted,
  received,
  \* the PCM codec of audioUtils.ts on one sample: <<>> while there is none
  data,                 \* createBlob's data[i], in units of 1 / SampleSteps
  blob,                 \* the two bytes of int16[i]
  channelData,          \* decodeAudioData's channelData[i], in 1 / PcmScale
  \* downsampleTo16k of audioUtils.ts on one buffer
  buffer,               \* the samples handed in
  inputSampleRate,      \* 0 while there is no buffer
  result,               \* <<the samples returned>>, <<>> before the call
  \* the openUrl tool on one url; strings are sequences of characters
  argsUrl,              \* <<args.url>>, <<>> while there is no call
  opened,               \* <<the url handed to window.open>>
  reported,             \* <<result.url>>, <<>> when the popup is blocked
  sampleRate,           \* inputCtx.sampleRate: the rate the input context runs at
  chunking,             \* history of the capture callback, where it is kept
  \* cleanupAudio followed on its own
  released,             \* the objects disconnect() or close() was called on
  faulted,              \* one of them was called on an object already released
  cleanups,             \* calls of cleanupAudio so far
  afterFirst,           \* <<the audio state the first call left>>
  \* onmessage followed across its await of decodeAudioData (line 434): used
  \* where several messages are handed over before any handler resumes
  decoding,             \* the fragments of the suspended handlers, oldest first
  arrived,              \* fragments received so far
  started,              \* history: the units started, in the order of start
  \* history, read by the properties only
  lastTeardown,         \* "user": the user disconnected, "server": a server
                        \* closed a transport that no user disconnect had
                        \* torn down; "none" again once connect is called
  cycleErrors,          \* transient errors since the retry state was last reset
  cycleRetries,         \* reconnects scheduled since then
  script                \* events of the followed scenario seen so far, plus
                        \* one; 0 while no scenario is followed

codecVars == <<data, blob, channelData>>
resampleVars == <<buffer, inputSampleRate, result>>
urlVars == <<argsUrl, opened, reported>>
utilVars == <<codecVars, resampleVars, urlVars>>
arrivalVars == <<decoding, arrived, started>>
teardownVars == <<released, faulted, cleanups, afterFirst>>
\* written by no handler of the hook
fixedVars == <<apiKey, accessKey, observe, sampleRate, utilVars>>
\* the same, and what only some specifications follow
cfgVars == <<fixedVars, arrivalVars, chunking, teardownVars>>
shareVars == <<isScreenSharing, screenStream, videoIntervalRef>>
ctxRefs == <<inputAudioContextRef, outputAudioContextRef>>
capRefs == <<inputSourceRef, processorRef>>
audioVars == <<ctxRefs, capRefs, sourcesRef, audioBufferRef>>
\* written by onmessage only
mediaVars == <<currentTheme, nextStartTimeRef>>
gateVars == <<isWakeWordListening, porcupineRef>>
connVars == <<status, sessionRef, stopRef, isConnectingRef, retryCountRef>>
loopVars == <<cpc, transport, micPending, sw, wakeTimers, reconnectTimers>>
histVars == <<lastTeardown, cycleErrors, cycleRetries>>
vars == <<cfgVars, shareVars, audioVars, mediaVars, gateVars, connVars,
          loopVars, now, emitted, received, histVars, script>>

NovaStatus == {"IDLE", "CONNECTING", "LISTENING", "THINKING", "SPEAKING", "ERROR"}

\* The objects cleanupAudio releases (lines 180-195).
AudioObjects == {"processor", "source", "inputCtx", "outputCtx"}

ConnectPoints == {"kwStop", "stopWake", "resume"}
TransportStates == {"opening", "open", "errored"}
WakePoints == {"stop", "create", "subscribe"}

Inc(n) == IF n < MaxCount THEN n + 1 ELSE n

\* One more event of the followed scenario, if one is followed.
Advance(n) == IF n = 0 THEN 0 ELSE n + 1

\* connect() invocations in progress and transports not closed yet
Alive == cpc["kwStop"] + cpc["stopWake"] + cpc["resume"]
         + transport["opening"] + transport["open"] + transport["errored"]

SwTotal == sw["stop"] + sw["create"] + sw["subscribe"]

\* Asynchronous operations outstanding: suspended invocations, transports,
\* getUserMedia requests and timers.
Pending == Alive + micPending + SwTotal + wakeTimers + reconnectTimers

\* ----------------------------------------------------------------- PCM codec
PcmScale == 32768
PcmMax == 32767

\* Samples have one binary digit more than the PCM keeps; every one of them
\* is a Float32 value, and its products below are exact.
SampleSteps == 2 * PcmScale

Samples == (0 - SampleSteps)..SampleSteps

\* Math.max(-1, Math.min(1, data[i])) (line 95)
clamp(x) ==
  IF x < 0 - SampleSteps THEN 0 - SampleSteps
  ELSE IF x > SampleSteps THEN SampleSteps ELSE x

\* The integer part of s * factor for a sample s >= 0.
Scaled(s, factor) ==
  (s \div SampleSteps) * factor + ((s % SampleSteps) * factor) \div SampleSteps

\* The conversion of a number to an element of an Int16Array: its value
\* modulo 2^16, as a signed number.
ToInt16(n) ==
  LET w == n % (2 * PcmScale)
  IN IF w >= PcmScale THEN w - 2 * PcmScale ELSE w

\* s < 0 ? s * 0x8000 : s * 0x7FFF, stored in int16[i] (line 96): the
\* fraction is dropped.
quantise(x) ==
  LET s == clamp(x)
  IN ToInt16(IF s < 0 THEN 0 - Scaled(0 - s, PcmScale) ELSE Scaled(s, PcmMax))

\* new Uint8Array(int16.buffer) (line 99): low byte first.
int16Bytes(q) ==
  LET w == q % (2 * PcmScale) IN <<w % 256, w \div 256>>

\* new Int16Array(buffer) over the bytes (lines 66-71).
pcmData(bytes) == ToInt16(bytes[1] + 256 * bytes[2])

\* createBlob (lines 90-102) on a buffer of one sample.
createBlob(x) == int16Bytes(quantise(x))

\* decodeAudioData (lines 57-85) on the bytes of one sample, one channel:
\* pcmData[i] / 32768.0, in units of 1 / PcmScale.
decodeAudioData(bytes) == pcmData(bytes)

\* ----------------------------------------------------------------- resampler
\* Rates of capture devices.  For each of them the quotients and products of
\* lines 40-46, computed in double precision, round to the same integers as
\* the exact ones.
Rates == {TargetRate, 22050, 32000, 44100, 48000, 96000}

\* Values of the samples of a buffer.
Tones == {0, 1, 2}

Buffers == UNION {[1..n -> Tones] : n \in 0..MaxLength}

\* Math.ceil(buffer.length / ratio) with ratio = inputSampleRate / 16000
\* (lines 40-41)
newLength(length, rate) == (length * TargetRate + rate - 1) \div rate

\* An offset rounded to the nearest sample.
offsetRounded(i, rate) == (2 * i * rate + TargetRate) \div (2 * TargetRate)

\* Math.floor(i * ratio) (line 46)
offset(i, rate) == (i * rate) \div TargetRate

\* downsampleTo16k (lines 35-52); result is a new Float32Array, all 0.
downsampleTo16k(buf, rate) ==
  IF rate = TargetRate THEN buf
  ELSE [i \in 1..newLength(Len(buf), rate) |->
          IF offset(i - 1, rate) < Len(buf)
          THEN buf[offset(i - 1, rate) + 1] ELSE 0]

\* -------------------------------------------------------------------- openUrl
Https == <<"h", "t", "t", "p", "s", ":", "/", "/">>
Http == <<"h", "t", "t", "p", ":", "/", "/">>
DotCom == <<".", "c", "o", "m">>

\* The capital letters that occur, and their small letters.
UpperCase == <<"A", "D", "E", "H", "I", "P", "R", "S", "T">>
LowerCase == <<"a", "d", "e", "h", "i", "p", "r", "s", "t">>

toLowerCase(s) ==
  [i \in 1..Len(s) |->
     IF \E k \in 1..Len(UpperCase) : UpperCase[k] = s[i]
     THEN LowerCase[CHOOSE k \in 1..Len(UpperCase) : UpperCase[k] = s[i]]
     ELSE s[i]]

IsInk(c) == c # " "

\* url.replace(/\s+/g, '') (line 488)
stripSpaces(s) == SelectSeq(s, IsInk)

startsWith(s, p) == Len(s) >= Len(p) /\ SubSeq(s, 1, Len(p)) = p

includes(s, c) == \E i \in 1..Len(s) : s[i] = c

\* new URL(url) for a url that starts with http:// or https:// and has no
\* port, query or fragment: the hostname ends before the first "/", and an
\* empty hostname makes the constructor throw.
urlObj(url) ==
  LET scheme == IF startsWith(url, Https) THEN Https ELSE Http
      rest == SubSeq(url, Len(scheme) + 1, Len(url))
      slashes == {i \in 1..Len(rest) : rest[i] = "/"}
      hostEnd == IF slashes = {} THEN Len(rest) + 1
                 ELSE CHOOSE i \in slashes : \A j \in slashes : i <= j
  IN [scheme |-> scheme,
      hostname |-> SubSeq(rest, 1, hostEnd - 1),
      pathname |-> SubSeq(rest, hostEnd, Len(rest)),
      valid |-> hostEnd > 1]

\* urlObj.toString(): the path of an http(s) URL is never empty.
serialise(u) ==
  u.scheme \o u.hostname \o (IF u.pathname = <<>> THEN <<"/">> ELSE u.pathname)

\* The url openUrl hands to window.open (lines 483-507).
normalise(raw) ==
  LET clean == stripSpaces(toLowerCase(raw))
      url == IF ~startsWith(clean, Http) /\ ~startsWith(clean, Https)
             THEN Https \o clean ELSE clean
      u == urlObj(url)
  IN IF u.valid
     THEN IF ~includes(u.hostname, ".")
          THEN serialise([u EXCEPT !.hostname = u.hostname \o DotCom])
          ELSE url
     ELSE IF ~includes(url, ".") THEN url \o DotCom ELSE url

\* The urls of the spec's examples.
Reddit == <<"R", "E", "D", "D", "I", "T">>
FaceBook ==
  <<"f", "a", "c", "e", " ", "b", "o", "o", "k", " ", ".", " ", "c", "o", "m">>

\* The urls openUrl is called with: a scheme or none, then up to MaxHost
\* characters; and the examples.
Urls ==
  {p \o h : p \in {<<>>, Http, Https, <<"H", "T", "T", "P", "S", ":", "/", "/">>},
            h \in UNION {[1..n -> {"a", "A", " ", "."}] : n \in 0..MaxHost}}
    \cup {Reddit, FaceBook}

\* ------------------------------------------------------------ sample buffers
Run(n, v) == [n |-> n, v |-> v]

RECURSIVE RunLength(_)
RunLength(rs) == IF rs = <<>> THEN 0 ELSE rs[1].n + RunLength(Tail(rs))

\* Sums of squares are followed up to this value, which is above every value
\* they are compared with (line 412 for a chunk of BUFFER_THRESHOLD samples):
\* a larger sum counts as this one.
SumCeiling == RmsEpsilon * RmsEpsilon * BUFFER_THRESHOLD + 1

\* The squares of the samples of one run, summed.
RunSquares(r) ==
  LET m == IF r.v < 0 THEN 0 - r.v ELSE r.v
  IN IF m >= RmsEpsilon * BUFFER_THRESHOLD THEN SumCeiling
     ELSE IF m * m >= SumCeiling THEN SumCeiling
     ELSE IF r.n * m * m >= SumCeiling THEN SumCeiling
     ELSE r.n * m * m

\* The sum of the squares of the samples (lines 406-409).
RECURSIVE SumSquares(_)
SumSquares(rs) ==
  IF rs = <<>> THEN 0
  ELSE LET sum == RunSquares(rs[1]) + SumSquares(Tail(rs))
       IN IF sum >= SumCeiling THEN SumCeiling ELSE sum

\* newBuffer: a followed by b (lines 397-400).
Concat(a, b) ==
  IF a = <<>> THEN b
  ELSE IF b = <<>> THEN a
  ELSE IF a[Len(a)].v = b[1].v
  THEN SubSeq(a, 1, Len(a) - 1) \o <<Run(a[Len(a)].n + b[1].n, b[1].v)>> \o Tail(b)
  ELSE a \o b

\* rs.slice(0, k)
RECURSIVE SliceTo(_, _)
SliceTo(rs, k) ==
  IF k = 0 \/ rs = <<>> THEN <<>>
  ELSE IF rs[1].n <= k THEN <<rs[1]>> \o SliceTo(Tail(rs), k - rs[1].n)
  ELSE <<Run(k, rs[1].v)>>

\* rs.slice(k)
RECURSIVE SliceFrom(_, _)
SliceFrom(rs, k) ==
  IF k = 0 \/ rs = <<>> THEN rs
  ELSE IF rs[1].n <= k THEN SliceFrom(Tail(rs), k - rs[1].n)
  ELSE <<Run(rs[1].n - k, rs[1].v)>> \o Tail(rs)

\* Sample values a capture frame is made of: silence, below and above the
\* epsilon of line 412, 0.01 of either sign, full scale.
Levels == {0, 5, 20, -100000, 100000, 10000000}

\* The frames of the capture device, already at 16 kHz (line 395): one
\* sample of one level, the others of another.
Frames ==
  {Concat(<<Run(1, p)>>, <<Run(FrameSamples - 1, r)>>) : p, r \in Levels}

\* A frame of silence.
SilentFrame == <<Run(FrameSamples, 0)>>

\* The rates an input context may run at: the one asked for (line 322) and
\* those of devices where the request is not honoured.
DeviceRates == {4000, 8000, 11025, TargetRate, 44100, 96000}

\* scriptBufferSize (lines 377-379)
scriptBufferSize(rate) ==
  IF rate >= 96000 THEN 4 * FrameSamples
  ELSE IF rate >= 44100 THEN 2 * FrameSamples
  ELSE FrameSamples

\* Sample values of the frames whose chunking is followed.
CaptureLevels == {0, 5, 100000}

\* The frames of a capture device of the rate, resampled (line 395): one
\* sample of one level, the others of another.
FramesAt(rate) ==
  {Concat(<<Run(1, p)>>,
          <<Run(newLength(scriptBufferSize(rate), rate) - 1, r)>>) :
     p, r \in CaptureLevels}

\* The chunks, one after the other.
RECURSIVE Flatten(_)
Flatten(chunks) ==
  IF chunks = <<>> THEN <<>> ELSE Concat(chunks[1], Flatten(Tail(chunks)))

\* s is t with some of its elements left out.
RECURSIVE IsSubSeq(_, _)
IsSubSeq(s, t) ==
  IF s = <<>> THEN TRUE
  ELSE IF t = <<>> THEN FALSE
  ELSE IF s[1] = t[1] /\ IsSubSeq(Tail(s), Tail(t)) THEN TRUE
  ELSE IsSubSeq(s, Tail(t))

\* An accumulator emptied by the slice.
remainderDropped(newBuffer) == <<>>

\* audioBufferRef.current.slice(BUFFER_THRESHOLD) (line 403)
remainder(newBuffer) == SliceFrom(newBuffer, BUFFER_THRESHOLD)

\* A gate whose loop stops halfway through the chunk.
audibleHalf(chunk) ==
  LET head == SliceTo(chunk, RunLength(chunk) \div 2)
  IN SumSquares(head) > RmsEpsilon * RmsEpsilon * RunLength(head)

\* The silence gate (lines 406-412): rms > 0.000001, that is
\* sumSquares / length > 0.000001 squared.
audible(chunk) ==
  SumSquares(chunk) > RmsEpsilon * RmsEpsilon * RunLength(chunk)

\* ------------------------------------------------------------------ outputs
\* addLog (lines 92-103); arg is the part of the message that varies.
LogArg(type, text, arg) == [kind |-> "log", type |-> type, text |-> text, arg |-> arg]

Log(type, text) == LogArg(type, text, "")

\* What a step hands to the outside, when the run is observed.
Out(es) == IF observe THEN es ELSE <<>>

\* The outputs of a step that is not an onmessage.
Emit(es) == emitted' = Out(es) /\ received' = <<>>

IsError(e) == e.kind = "log" /\ e.type = "error"

ErrorsOf(es) == SelectSeq(es, IsError)

IsToolResponse(e) == e.kind = "toolResponse"

IsStart(e) == e.kind = "start"

IsMedia(e) == e.kind = "media"

\* ------------------------------------------------------------------- tools
CallIds == {"a", "b"}

\* A function call and what executing it meets: window.open returns a
\* window ("opens") or null ("blocked"); reading the arguments throws
\* ("throws", e.g. args.url is not a string); changeTheme is given its mode.
ToolCases ==
  {[name |-> "openUrl", env |-> e] : e \in {"opens", "blocked", "throws"}}
  \cup {[name |-> "googleSearch", env |-> e] : e \in {"opens", "blocked"}}
  \cup {[name |-> "changeTheme", env |-> e] : e \in {"dark", "light", "throws"}}
  \cup {[name |-> n, env |-> "runs"] : n \in {"getSystemStatus", "playMusic"}}

Calls == {[id |-> i, name |-> c.name, env |-> c.env] : i \in CallIds, c \in ToolCases}

Batches == UNION {[1..n -> Calls] : n \in 0..MaxBatch}

\* The result of one call (lines 478-546).
toolResult(fc) ==
  IF fc.env = "throws" THEN "error"
  ELSE IF fc.name = "openUrl"
  THEN (IF fc.env = "opens" THEN "opened" ELSE "popupBlocked")
  ELSE IF fc.name = "googleSearch"
  THEN (IF fc.env = "opens" THEN "searched" ELSE "popupBlocked")
  ELSE IF fc.name = "changeTheme" THEN "themeChangedTo"
  ELSE IF fc.name = "getSystemStatus" THEN "systemStatus"
  ELSE "success"

\* The log entries of one call (lines 479-545).
toolLogs(fc) ==
  <<LogArg("tool", "Executing tool", fc.name)>> \o
  (IF fc.env = "throws" THEN <<Log("error", "Tool error")>>
   ELSE IF fc.name = "openUrl"
   THEN (IF fc.env = "opens" THEN <<Log("tool", "Opened URL")>>
         ELSE <<Log("error", "Popup blocked. Click here to open")>>)
   ELSE IF fc.name = "googleSearch"
   THEN (IF fc.env = "opens" THEN <<Log("tool", "Searching Google")>>
         ELSE <<Log("error", "Popup blocked. Search link")>>)
   ELSE IF fc.name = "changeTheme"
   THEN <<LogArg("tool", "Theme changed to", fc.env)>>
   ELSE IF fc.name = "getSystemStatus"
   THEN <<Log("tool", "System diagnostics run")>>
   ELSE <<>>)

RECURSIVE batchLogs(_)
batchLogs(calls) ==
  IF calls = <<>> THEN <<>> ELSE toolLogs(calls[1]) \o batchLogs(Tail(calls))

\* currentTheme after the calls (line 532).
RECURSIVE themeAfter(_, _)
themeAfter(theme, calls) ==
  IF calls = <<>> THEN theme
  ELSE themeAfter(IF calls[1].name = "changeTheme" /\ calls[1].env # "throws"
                  THEN calls[1].env ELSE theme,
                  Tail(calls))

\* A dispatcher that lets a tool's exception end the loop.
functionResponsesUntilThrow(calls) ==
  LET thrown == {i \in 1..Len(calls) : calls[i].env = "throws"}
      last == IF thrown = {} THEN Len(calls)
              ELSE (CHOOSE i \in thrown : \A j \in thrown : i <= j) - 1
  IN [i \in 1..last |->
        [id |-> calls[i].id, name |-> calls[i].name, result |-> toolResult(calls[i])]]

\* functionResponses once the loop of lines 476-549 ended.
functionResponses(calls) ==
  [i \in 1..Len(calls) |->
     [id |-> calls[i].id, name |-> calls[i].name, result |-> toolResult(calls[i])]]

\* A tool section that surfaces its failures as a connection error.
toolCallStatusSurfaced(st, calls, sendOk) ==
  IF ~sendOk \/ \E i \in 1..Len(calls) : calls[i].env = "throws"
  THEN "ERROR" ELSE st

\* The status the tool section leaves (lines 474-558): it never calls
\* setStatus, whatever its tools throw and whether or not the response
\* could be sent.
toolCallStatus(st, calls, sendOk) == st

\* ---------------------------------------------------------------- messages
\* Durations of the audio fragments: 0.5 s, 1 s, 2 s.
Durations == {1, 2, 4}

LongFragment == CHOOSE d \in Durations : \A e \in Durations : e <= d

\* A server message with audio and turnComplete only.
PlainMessage(hasAudio, decodeOk, turnComplete, duration) ==
  [hasAudio |-> hasAudio, decodeOk |-> decodeOk, duration |-> duration,
   transcript |-> FALSE, turnComplete |-> turnComplete,
   hasToolCall |-> FALSE, functionCalls |-> <<>>]

\* A server message with a toolCall only.
ToolMessage(calls) ==
  [hasAudio |-> FALSE, decodeOk |-> TRUE, duration |-> 1,
   transcript |-> FALSE, turnComplete |-> FALSE,
   hasToolCall |-> TRUE, functionCalls |-> calls]

\* A scheduler that starts every unit at the cursor.
startTimeCursor(cursor, t) == cursor

\* The time a unit is started at (lines 445-450).
startTime(cursor, t) == IF cursor < t THEN t ELSE cursor

\* An audio section that schedules a fragment it could not decode.
playAudioUnchecked(hasAudio, decodeOk, duration) ==
  IF hasAudio
  THEN /\ sourcesRef < MaxSources
       /\ startTime(nextStartTimeRef, now) + duration <= MaxTime
       /\ nextStartTimeRef' = startTime(nextStartTimeRef, now) + duration
       /\ sourcesRef' = sourcesRef + 1
  ELSE UNCHANGED <<nextStartTimeRef, sourcesRef>>

\* The audio section of onmessage (lines 433-462) on the cursor and the
\* live set.  decodeOk = FALSE: decode or decodeAudioData throws, which is
\* before the cursor is read.
playAudio(hasAudio, decodeOk, duration) ==
  IF hasAudio /\ decodeOk
  THEN /\ sourcesRef < MaxSources
       /\ startTime(nextStartTimeRef, now) + duration <= MaxTime
       /\ nextStartTimeRef' = startTime(nextStartTimeRef, now) + duration
       /\ sourcesRef' = sourcesRef + 1
  ELSE UNCHANGED <<nextStartTimeRef, sourcesRef>>

\* What the audio section hands out: the unit started, or the error entry.
audioOut(msg) ==
  IF ~msg.hasAudio THEN <<>>
  ELSE IF msg.decodeOk
  THEN <<[kind |-> "start", at |-> startTime(nextStartTimeRef, now),
          duration |-> msg.duration]>>
  ELSE <<Log("error", "Audio playback error")>>

\* What the rest of onmessage hands out (lines 465-558).
restOut(msg, sendOk) ==
  (IF msg.transcript THEN <<Log("info", "You:")>> ELSE <<>>)
  \o (IF msg.hasToolCall
      THEN batchLogs(msg.functionCalls)
           \o <<[kind |-> "toolResponse",
                 functionResponses |-> functionResponses(msg.functionCalls),
                 delivered |-> sendOk]>>
      ELSE <<>>)

\* Reasons getUserMedia rejects with (micErr.message).
MicReasons == {"Permission denied", "Requested device not found"}

\* What onerror's message contains: 'Network error', 'closed', or neither.
ErrorKinds == {"network", "closed", "other"}

TypeOK ==
  /\ apiKey \in BOOLEAN /\ accessKey \in BOOLEAN /\ observe \in BOOLEAN
  /\ status \in NovaStatus
  /\ isWakeWordListening \in BOOLEAN
  /\ isScreenSharing \in BOOLEAN /\ screenStream \in BOOLEAN
  /\ videoIntervalRef \in BOOLEAN
  /\ currentTheme \in {"dark", "light"}
  /\ inputAudioContextRef \in BOOLEAN /\ outputAudioContextRef \in BOOLEAN
  /\ inputSourceRef \in BOOLEAN /\ processorRef \in BOOLEAN
  /\ nextStartTimeRef \in 0..MaxTime
  /\ sourcesRef \in 0..MaxSources
  /\ \A i \in 1..Len(audioBufferRef) : audioBufferRef[i].n > 0
  /\ sampleRate \in DeviceRates
  /\ chunking.on \in BOOLEAN /\ chunking.count \in 0..MaxFrames
  /\ Len(chunking.sent) <= Len(chunking.chunks)
  /\ sessionRef \in BOOLEAN
  /\ stopRef \in BOOLEAN /\ isConnectingRef \in BOOLEAN
  /\ retryCountRef \in Nat
  /\ porcupineRef \in {"null", "created", "subscribed"}
  /\ cpc \in [ConnectPoints -> 0..MaxPending]
  /\ transport \in [TransportStates -> 0..MaxPending]
  /\ micPending \in 0..MaxPending
  /\ sw \in [WakePoints -> 0..MaxPending]
  /\ wakeTimers \in 0..MaxPending /\ reconnectTimers \in 0..MaxPending
  /\ Pending <= MaxPending
  /\ now \in 0..MaxTime
  /\ observe \/ emitted = <<>>
  /\ observe \/ received = <<>>
  /\ data = <<>> \/ (Len(data) = 1 /\ data[1] \in Samples)
  /\ blob = <<>> \/ (Len(blob) = 2 /\ blob[1] \in 0..255 /\ blob[2] \in 0..255)
  /\ channelData = <<>>
       \/ (Len(channelData) = 1 /\ channelData[1] \in (0 - PcmScale)..PcmMax)
  /\ Len(buffer) <= MaxLength /\ \A i \in 1..Len(buffer) : buffer[i] \in Tones
  /\ inputSampleRate \in Rates \cup {0}
  /\ result = <<>> \/ (Len(result) = 1 /\ Len(result[1]) <= MaxLength)
  /\ Len(argsUrl) <= 1 /\ Len(opened) <= 1 /\ Len(reported) <= 1
  /\ arrived \in 0..MaxArrivals
  /\ released \subseteq AudioObjects /\ faulted \in BOOLEAN
  /\ cleanups \in 0..MaxCleanups /\ Len(afterFirst) <= 1
  /\ Len(decoding) <= arrived /\ Len(started) <= arrived
  /\ lastTeardown \in {"none", "user", "server"}
  /\ cycleErrors \in 0..MaxCount /\ cycleRetries \in 0..MaxCount
  /\ script \in Nat

\* ---------------------------------------------------------------- helpers
\* startWakeWord up to its first await on real I/O (lines 238-253).
startWakeWord ==
  IF ~accessKey \/ sessionRef \/ isConnectingRef
  THEN UNCHANGED sw
  ELSE IF porcupineRef # "null"
       THEN sw' = [sw EXCEPT !["stop"] = @ + 1]
       ELSE sw' = [sw EXCEPT !["create"] = @ + 1]

\* A cleanupAudio that releases the graph but forgets the live set and the
\* accumulator.
cleanupAudioKeepsQueue ==
  /\ processorRef' = FALSE
  /\ inputSourceRef' = FALSE
  /\ inputAudioContextRef' = FALSE
  /\ outputAudioContextRef' = FALSE
  /\ UNCHANGED <<sourcesRef, audioBufferRef>>

\* A cleanupAudio that empties the live set and the accumulator but leaves
\* the refs of the graph as they are.
cleanupAudioKeepsRefs ==
  /\ UNCHANGED <<ctxRefs, capRefs>>
  /\ sourcesRef' = 0
  /\ audioBufferRef' = <<>>

\* cleanupAudio (lines 179-205).  The ended events of the units it stops
\* are not followed.
cleanupAudio ==
  /\ processorRef' = FALSE
  /\ inputSourceRef' = FALSE
  /\ inputAudioContextRef' = FALSE
  /\ outputAudioContextRef' = FALSE
  /\ sourcesRef' = 0
  /\ audioBufferRef' = <<>>

\* stopScreenShare (lines 104-115) as the current render built it; its log
\* entry is in the output of the actions that call it.
stopScreenShare ==
  /\ videoIntervalRef' = FALSE
  /\ screenStream' = FALSE
  /\ isScreenSharing' = FALSE

\* stopScreenShare as connect's callbacks see it: connect is memoized without
\* stopScreenShare among its dependencies (line 630), so its callbacks hold
\* the first render's stopScreenShare, whose screenStream is null (line 109).
stopScreenShareStale ==
  /\ videoIntervalRef' = FALSE
  /\ isScreenSharing' = FALSE
  /\ UNCHANGED screenStream

\* stopWakeWord after its awaits (lines 228-231).  When a concurrent
\* stopWakeWord already cleared the ref, terminate() throws and the catch
\* swallows it (lines 232-234).
stopWakeWordFinish ==
  IF porcupineRef # "null"
  THEN porcupineRef' = "null" /\ isWakeWordListening' = FALSE
  ELSE UNCHANGED gateVars

\* connect from its try block to the await of the contexts' resume
\* (lines 315-326); from is the await point the invocation leaves.  The new
\* output context's clock starts at 0.
connectBegin(from) ==
  /\ isConnectingRef' = TRUE
  /\ status' = "CONNECTING"
  /\ stopRef' = FALSE
  /\ Emit(<<Log("info", IF retryCountRef > 0
                                  THEN "Reconnecting to Nova core..."
                                  ELSE "Initializing Nova core systems...")>>)
  /\ now' = 0
  /\ cpc' = IF from = "call"
            THEN [cpc EXCEPT !["resume"] = @ + 1]
            ELSE [cpc EXCEPT ![from] = @ - 1, !["resume"] = @ + 1]

\* The guard of connect (line 311).
connectGuard == isConnectingRef

\* A connect that raises its in-progress flag before it looks at the key.
connectNoKeyFlagged ==
  /\ status' = "ERROR"
  /\ isConnectingRef' = TRUE
  /\ Emit(<<Log("error", "API Key missing")>>)
  /\ UNCHANGED <<stopRef, now>>

\* connect with an empty key (lines 305-309).
connectNoKey ==
  /\ status' = "ERROR"
  /\ Emit(<<Log("error", "API Key missing")>>)
  /\ UNCHANGED <<stopRef, isConnectingRef, now>>

\* connect(key) from its entry (lines 304-313), called from a task (the
\* button, the reconnect timer).  With no detector, stopWakeWord() returns a
\* resolved promise and connect goes on in the same turn; with one, connect
\* is suspended until the detector is released.
connect(key) ==
  IF ~key
  THEN connectNoKey /\ UNCHANGED cpc
  ELSE IF connectGuard
  THEN Emit(<<>>) /\ UNCHANGED <<status, stopRef, isConnectingRef, cpc, now>>
  ELSE IF porcupineRef # "null"
  THEN /\ cpc' = [cpc EXCEPT !["stopWake"] = @ + 1]
       /\ Emit(<<>>)
       /\ UNCHANGED <<status, stopRef, isConnectingRef, now>>
  ELSE connectBegin("call")

\* disconnect (lines 207-222).
\* A disconnect that leaves the retry counter as it is.
disconnectKeepsRetry ==
  /\ stopRef' = TRUE
  /\ sessionRef' = FALSE
  /\ isConnectingRef' = FALSE
  /\ UNCHANGED retryCountRef
  /\ stopScreenShare
  /\ cleanupAudio
  /\ status' = "IDLE"
  /\ Emit(<<Log("info", "Screen sharing ended"),
            Log("info", "Session disconnected by user")>>)
  /\ wakeTimers' = wakeTimers + 1

disconnect ==
  /\ stopRef' = TRUE
  /\ sessionRef' = FALSE
  /\ isConnectingRef' = FALSE
  /\ retryCountRef' = 0
  /\ stopScreenShare
  /\ cleanupAudio
  /\ status' = "IDLE"
  /\ Emit(<<Log("info", "Screen sharing ended"),
                      Log("info", "Session disconnected by user")>>)
  /\ wakeTimers' = wakeTimers + 1

\* A handler that never reports SPEAKING.
messageStatusSilent(hasAudio, turnComplete) ==
  IF turnComplete THEN "LISTENING" ELSE status

\* A handler that reports a fragment as THINKING.
messageStatusThinking(hasAudio, turnComplete) ==
  IF turnComplete THEN "LISTENING"
  ELSE IF hasAudio THEN "THINKING"
  ELSE status

\* The status a message leaves (lines 430-472): SPEAKING when it carries
\* audio, then LISTENING when it carries turnComplete.
messageStatus(hasAudio, turnComplete) ==
  IF turnComplete THEN "LISTENING"
  ELSE IF hasAudio THEN "SPEAKING"
  ELSE status

\* A retry condition that ignores the retry counter.
shouldRetryAlways(kind) == kind = "network"

\* A retry condition that does not read the message.
shouldRetryAny(kind) == retryCountRef = 0

\* The retry condition of onerror (line 576).
shouldRetry(kind) == kind = "network" /\ retryCountRef = 0

\* A catch that reports the failure without its reason.
micCatchGeneric(reason) ==
  /\ status' = "ERROR"
  /\ Emit(<<Log("error", "Microphone Error")>>)

\* The catch of onopen (lines 422-425).
micCatch(reason) ==
  /\ status' = "ERROR"
  /\ Emit(<<LogArg("error", "Microphone Error", reason)>>)

\* ------------------------------------------------------------------ Init
\* The state after the first render and its mount effect (lines 632-646):
\* status is IDLE and the gate is not listening, so the effect has called
\* startWakeWord when the detector credential is set.
Start ==
  /\ apiKey \in BOOLEAN /\ accessKey \in BOOLEAN
  /\ status = "IDLE"
  /\ isWakeWordListening = FALSE
  /\ isScreenSharing = FALSE /\ screenStream = FALSE /\ videoIntervalRef = FALSE
  /\ currentTheme = "dark"
  /\ nextStartTimeRef = 0
  /\ sessionRef = FALSE
  /\ stopRef = FALSE /\ isConnectingRef = FALSE
  /\ retryCountRef = 0
  /\ porcupineRef = "null"
  /\ cpc = [p \in ConnectPoints |-> 0]
  /\ transport = [t \in TransportStates |-> 0]
  /\ micPending = 0
  /\ sw = [p \in WakePoints |-> IF p = "create" /\ accessKey THEN 1 ELSE 0]
  /\ wakeTimers = 0 /\ reconnectTimers = 0
  /\ now = 0
  /\ emitted = <<>>
  /\ lastTeardown = "none" /\ cycleErrors = 0 /\ cycleRetries = 0
  /\ received = <<>>
  /\ script = 0

\* No sample is put through the codec.
NoSample == data = <<>> /\ blob = <<>> /\ channelData = <<>>

\* No buffer is put through the resampler.
NoBuffer == buffer = <<>> /\ inputSampleRate = 0 /\ result = <<>>

\* openUrl is not called on its own.
NoUrl == argsUrl = <<>> /\ opened = <<>> /\ reported = <<>>

\* No handler of onmessage is suspended.
NoArrival == decoding = <<>> /\ arrived = 0 /\ started = <<>>

\* None of the functions followed on their own is in use.
Unused == NoSample /\ NoBuffer /\ NoUrl

\* The history of the capture callback, empty.
NoChunks(on) ==
  [on |-> on, count |-> 0, frames |-> <<>>, chunks |-> <<>>, sent |-> <<>>]

\* The refs of the audio pipeline as useNova creates them (lines 60-77).
NoAudio ==
  /\ inputAudioContextRef = FALSE /\ outputAudioContextRef = FALSE
  /\ inputSourceRef = FALSE /\ processorRef = FALSE
  /\ sourcesRef = 0
  /\ audioBufferRef = <<>>

\* cleanupAudio has not been called on its own.
NoTeardown ==
  released = {} /\ faulted = FALSE /\ cleanups = 0 /\ afterFirst = <<>>

\* The input context runs at the rate it was asked for (line 322), no
\* history of the capture callback is kept, and the pipeline is not built.
Plain ==
  /\ sampleRate = TargetRate /\ chunking = NoChunks(FALSE)
  /\ NoAudio /\ NoTeardown

Init == Start /\ observe = FALSE /\ Unused /\ NoArrival /\ Plain

\* The same, in a run whose outputs are recorded.
InitObserved == Start /\ observe = TRUE /\ Unused /\ NoArrival /\ Plain

\* ---------------------------------------------------------------- user actions
\* App.handleToggle (src/App.tsx lines 40-46) while the button shows
\* INITIALIZE; the button exists only when API_KEY is set (line 230).
UserConnect ==
  /\ apiKey
  /\ status \in {"IDLE", "ERROR"}
  /\ Pending < MaxPending
  /\ connect(apiKey)
  /\ lastTeardown' = "none"
  /\ script' = Advance(script)
  /\ UNCHANGED <<cfgVars, shareVars, audioVars, mediaVars, gateVars,
                 sessionRef, retryCountRef, transport, micPending, sw,
                 wakeTimers, reconnectTimers, cycleErrors, cycleRetries>>

\* App.handleToggle while the button shows TERMINATE.
UserDisconnect ==
  /\ apiKey
  /\ status \notin {"IDLE", "ERROR"}
  /\ Pending < MaxPending
  /\ disconnect
  /\ lastTeardown' = "user"
  /\ cycleErrors' = 0 /\ cycleRetries' = 0
  /\ UNCHANGED <<cfgVars, mediaVars, gateVars, cpc, transport, micPending,
                 sw, reconnectTimers, now, script>>

\* startScreenShare once getDisplayMedia resolved (lines 128-163); nothing
\* is written before that await.  A denial only logs (lines 170-176).
StartScreenShare ==
  /\ ~isScreenSharing
  /\ screenStream' = TRUE
  /\ isScreenSharing' = TRUE
  /\ videoIntervalRef' = TRUE
  /\ Emit(<<Log("info", "Screen sharing active")>>)
  /\ UNCHANGED <<cfgVars, audioVars, mediaVars, gateVars, connVars, loopVars,
                 now, histVars, script>>

\* getDisplayMedia rejects (lines 170-176).
ScreenShareFailed ==
  /\ ~isScreenSharing
  /\ isScreenSharing' = FALSE
  /\ Emit(<<Log("error", "Screen share failed")>>)
  /\ UNCHANGED <<cfgVars, screenStream, videoIntervalRef, audioVars, mediaVars,
                 gateVars, connVars, loopVars, now, histVars, script>>

\* sendTextMessage (lines 288-302), from the command form (src/App.tsx
\* line 289); sendOk: session.sendRealtimeInput does not throw.
SendTextMessage(sendOk) ==
  /\ Emit(IF ~sessionRef
                    THEN <<Log("error", "Connect to Nova first to send commands.")>>
                    ELSE IF sendOk
                    THEN <<[kind |-> "text"], Log("info", "Command:")>>
                    ELSE <<Log("error", "Error sending command")>>)
  /\ UNCHANGED <<cfgVars, shareVars, audioVars, mediaVars, gateVars, connVars,
                 loopVars, now, histVars, script>>

\* The share button while sharing (src/App.tsx line 271).
UserStopScreenShare ==
  /\ isScreenSharing
  /\ stopScreenShare
  /\ Emit(<<Log("info", "Screen sharing ended")>>)
  /\ UNCHANGED <<cfgVars, audioVars, mediaVars, gateVars, connVars, loopVars,
                 now, histVars, script>>

\* ---------------------------------------------------------------- connect
\* connect resumes after await stopWakeWord() (line 313): the detector is
\* released, then the try block runs.  isConnectingRef is not read again.
ConnectGateStopped ==
  /\ cpc["stopWake"] > 0
  /\ stopWakeWordFinish
  /\ connectBegin("stopWake")
  /\ UNCHANGED <<cfgVars, shareVars, audioVars, mediaVars, sessionRef,
                 retryCountRef, transport, micPending, sw, wakeTimers,
                 reconnectTimers, histVars, script>>

\* connect resumes after the contexts' resume (lines 328-621): the refs take
\* the new contexts and ai.live.connect starts opening the transport; connect
\* then awaits the session (line 622).
ConnectResumed ==
  /\ cpc["resume"] > 0
  /\ inputAudioContextRef' = TRUE
  /\ outputAudioContextRef' = TRUE
  /\ cpc' = [cpc EXCEPT !["resume"] = @ - 1]
  /\ transport' = [transport EXCEPT !["opening"] = @ + 1]
  /\ Emit(IF retryCountRef = 0
                    THEN <<Log("info", "Audio pipeline initialized")>>
                    ELSE <<>>)
  /\ UNCHANGED <<cfgVars, shareVars, capRefs, sourcesRef, audioBufferRef,
                 mediaVars, gateVars, connVars, micPending, sw, wakeTimers,
                 reconnectTimers, now, histVars, script>>

\* The try block throws or rejects: the catch of lines 625-629.  at is
\* "resume" (a context cannot resume) or "opening" (ai.live.connect rejects).
ConnectFailed(at) ==
  /\ \/ at = "resume" /\ cpc["resume"] > 0
        /\ cpc' = [cpc EXCEPT !["resume"] = @ - 1] /\ UNCHANGED transport
     \/ at = "opening" /\ transport["opening"] > 0
        /\ transport' = [transport EXCEPT !["opening"] = @ - 1] /\ UNCHANGED cpc
  /\ status' = "ERROR"
  /\ isConnectingRef' = FALSE
  /\ Emit(<<Log("error", "Initialization failed")>>)
  /\ UNCHANGED <<cfgVars, shareVars, audioVars, mediaVars, gateVars,
                 sessionRef, stopRef, retryCountRef, micPending, sw,
                 wakeTimers, reconnectTimers, now, histVars, script>>

\* ---------------------------------------------------------------- transport
\* onopen up to its await of getUserMedia (lines 354-369), then, in the same
\* turn, the session promise resolves and connect stores the session
\* (lines 622-623).
TransportOpen ==
  /\ transport["opening"] > 0
  /\ Pending < MaxPending
  /\ transport' = [transport EXCEPT !["opening"] = @ - 1, !["open"] = @ + 1]
  /\ status' = "LISTENING"
  /\ isConnectingRef' = FALSE
  /\ retryCountRef' = 0
  /\ micPending' = micPending + 1
  /\ sessionRef' = TRUE
  /\ Emit(<<Log("info", "Secure connection established")>>)
  /\ cycleErrors' = 0 /\ cycleRetries' = 0
  /\ script' = Advance(script)
  /\ UNCHANGED <<cfgVars, shareVars, audioVars, mediaVars, gateVars, stopRef,
                 cpc, sw, wakeTimers, reconnectTimers, now, lastTeardown>>

\* onopen after getUserMedia resolved (lines 371-421): the capture graph is
\* wired in.
MicGranted ==
  /\ micPending > 0
  /\ micPending' = micPending - 1
  /\ inputSourceRef' = TRUE
  /\ processorRef' = TRUE
  /\ Emit(IF retryCountRef = 0
                    THEN <<Log("info", "Microphone access granted")>>
                    ELSE <<>>)
  /\ UNCHANGED <<cfgVars, shareVars, ctxRefs, sourcesRef, audioBufferRef,
                 mediaVars, gateVars, connVars, cpc, transport, sw,
                 wakeTimers, reconnectTimers, now, histVars, script>>

\* getUserMedia rejects with the given reason, or wiring the graph throws
\* (lines 422-425).
MicFailedWith(reason) ==
  /\ micPending > 0
  /\ micPending' = micPending - 1
  /\ micCatch(reason)
  /\ UNCHANGED <<cfgVars, shareVars, audioVars, mediaVars, gateVars,
                 sessionRef, stopRef, isConnectingRef, retryCountRef, cpc,
                 transport, sw, wakeTimers, reconnectTimers, now, histVars,
                 script>>

MicFailed == \E reason \in MicReasons : MicFailedWith(reason)

\* The test both callbacks begin with (lines 393, 428), never true.
stoppedNever == FALSE

\* if (stopRef.current) return;  (lines 393, 428)
stopped == stopRef

\* onmessage (lines 427-559) of an open transport, for the message msg;
\* sendOk: session.sendToolResponse does not throw.  decodeAudioData has no
\* await of its own, so the handler's await of it resumes in the same turn:
\* the unit is scheduled before any other callback runs.
ReceiveMessage(msg, sendOk) ==
  /\ transport["open"] > 0
  /\ ~stopped
  /\ msg.hasAudio \/ msg.transcript \/ msg.turnComplete \/ msg.hasToolCall
  /\ playAudio(msg.hasAudio, msg.decodeOk, msg.duration)
  /\ status' = toolCallStatus(messageStatus(msg.hasAudio, msg.turnComplete),
                              msg.functionCalls, sendOk)
  /\ currentTheme' = themeAfter(currentTheme, msg.functionCalls)
  /\ emitted' = Out(audioOut(msg) \o restOut(msg, sendOk))
  /\ received' = Out(<<[msg |-> msg, sendOk |-> sendOk]>>)
  /\ script' = Advance(script)
  /\ UNCHANGED <<cfgVars, shareVars, ctxRefs, capRefs, audioBufferRef,
                 gateVars, sessionRef, stopRef, isConnectingRef, retryCountRef,
                 loopVars, now, histVars>>

\* onmessage for a message with audio (a fragment of the longest duration)
\* and turnComplete only; decodeOk = FALSE is the catch of lines 460-462.
TransportMessage(hasAudio, decodeOk, turnComplete) ==
  ReceiveMessage(PlainMessage(hasAudio, decodeOk, turnComplete, LongFragment), TRUE)

\* source.onended (lines 454-459) of a unit in the live set.
PlaybackEnded ==
  /\ sourcesRef > 0
  /\ sourcesRef' = sourcesRef - 1
  /\ status' = IF sourcesRef' = 0 THEN "LISTENING" ELSE status
  /\ Emit(<<>>)
  /\ script' = Advance(script)
  /\ UNCHANGED <<cfgVars, shareVars, ctxRefs, capRefs, audioBufferRef,
                 mediaVars, gateVars, sessionRef, stopRef, isConnectingRef,
                 retryCountRef, loopVars, now, histVars>>

\* onerror (lines 568-582) of a transport that is opening or open.  kind:
\* "network" when the message contains 'Network error', "closed" when it
\* contains 'closed', else "other".
TransportError(from, kind) ==
  /\ from \in {"opening", "open"}
  /\ transport[from] > 0
  /\ transport' = [transport EXCEPT ![from] = @ - 1, !["errored"] = @ + 1]
  /\ status' = "ERROR"
  /\ isConnectingRef' = FALSE
  /\ IF shouldRetry(kind)
     THEN /\ Pending < MaxPending
          /\ retryCountRef' = retryCountRef + 1
          /\ cleanupAudio
          /\ reconnectTimers' = reconnectTimers + 1
          /\ cycleRetries' = Inc(cycleRetries)
     ELSE UNCHANGED <<retryCountRef, audioVars, reconnectTimers, cycleRetries>>
  /\ Emit((IF kind # "closed"
                     THEN <<LogArg("error", "Connection Error", kind)>>
                     ELSE <<>>)
                    \o (IF shouldRetry(kind)
                        THEN <<Log("info", "Attempting auto-reconnect in 2s...")>>
                        ELSE <<>>))
  /\ cycleErrors' = IF kind = "network" THEN Inc(cycleErrors) ELSE cycleErrors
  /\ UNCHANGED <<cfgVars, shareVars, mediaVars, gateVars, sessionRef, stopRef,
                 cpc, micPending, sw, wakeTimers, now, lastTeardown, script>>

\* onclose (lines 560-567); a transport that failed closes too.
TransportClose(from) ==
  /\ from \in {"open", "errored"}
  /\ transport[from] > 0
  /\ transport' = [transport EXCEPT ![from] = @ - 1]
  /\ status' = "IDLE"
  /\ isConnectingRef' = FALSE
  /\ stopRef' = TRUE
  /\ stopScreenShareStale
  /\ Emit(<<Log("info", "Connection closed by server"),
                      Log("info", "Screen sharing ended")>>)
  /\ wakeTimers' = wakeTimers + 1
  /\ lastTeardown' = IF lastTeardown = "user" THEN "user" ELSE "server"
  /\ UNCHANGED <<cfgVars, audioVars, mediaVars, gateVars, sessionRef,
                 retryCountRef, cpc, micPending, sw, reconnectTimers, now,
                 cycleErrors, cycleRetries, script>>

\* setTimeout(() => connect(apiKey), 2000) fires (line 580); apiKey is the
\* non-empty key of the connect that failed.
ReconnectTimer ==
  /\ reconnectTimers > 0
  /\ reconnectTimers' = reconnectTimers - 1
  /\ connect(TRUE)
  /\ lastTeardown' = "none"
  /\ UNCHANGED <<cfgVars, shareVars, audioVars, mediaVars, gateVars,
                 sessionRef, retryCountRef, transport, micPending, sw,
                 wakeTimers, cycleErrors, cycleRetries, script>>

\* onaudioprocess (lines 392-421) for one frame of the capture device.
\* The chunk is handed to session.sendRealtimeInput in the same turn: the
\* session promise is resolved once capture runs.
onaudioprocess(frame) ==
  /\ processorRef
  /\ ~stopped
  /\ chunking.on => chunking.count < MaxFrames
  /\ LET newBuffer == Concat(audioBufferRef, frame)
         chunkToSend == SliceTo(newBuffer, BUFFER_THRESHOLD)
         sliced == RunLength(newBuffer) >= BUFFER_THRESHOLD
         media == IF sliced /\ audible(chunkToSend) THEN <<chunkToSend>> ELSE <<>>
     IN /\ audioBufferRef' = IF sliced THEN remainder(newBuffer) ELSE newBuffer
        /\ emitted' = Out(IF media = <<>> THEN <<>>
                          ELSE <<[kind |-> "media", chunk |-> chunkToSend]>>)
        /\ chunking' =
             IF chunking.on
             THEN [on |-> TRUE,
                   count |-> chunking.count + 1,
                   frames |-> Concat(chunking.frames, frame),
                   chunks |-> chunking.chunks \o
                                (IF sliced THEN <<chunkToSend>> ELSE <<>>),
                   sent |-> chunking.sent \o media]
             ELSE chunking
  /\ received' = Out(<<[frame |-> frame]>>)
  /\ UNCHANGED <<fixedVars, arrivalVars, teardownVars, shareVars, ctxRefs,
                 capRefs, sourcesRef, mediaVars, gateVars, connVars, loopVars, now,
                 histVars, script>>

\* onaudioprocess for a frame of silence.
CaptureFrame == onaudioprocess(SilentFrame)

\* Half a second passes on the output context's clock.
Tick ==
  /\ outputAudioContextRef
  /\ now < MaxTime
  /\ now' = now + 1
  /\ Emit(<<>>)
  /\ UNCHANGED <<cfgVars, shareVars, audioVars, mediaVars, gateVars, connVars,
                 loopVars, histVars, script>>

\* ---------------------------------------------------------------- wake word
\* setTimeout(() => startWakeWord(), 1000) fires (lines 219-221, 566).
WakeTimer ==
  /\ wakeTimers > 0
  /\ wakeTimers' = wakeTimers - 1
  /\ startWakeWord
  /\ Emit(<<>>)
  /\ UNCHANGED <<cfgVars, shareVars, audioVars, mediaVars, gateVars, connVars,
                 cpc, transport, micPending, reconnectTimers, now, histVars,
                 script>>

\* startWakeWord resumes after await stopWakeWord() (line 250) and goes on
\* to load and create the detector.
WakeGateStopped ==
  /\ sw["stop"] > 0
  /\ stopWakeWordFinish
  /\ sw' = [sw EXCEPT !["stop"] = @ - 1, !["create"] = @ + 1]
  /\ Emit(<<>>)
  /\ UNCHANGED <<cfgVars, shareVars, audioVars, mediaVars, connVars, cpc,
                 transport, micPending, wakeTimers, reconnectTimers, now,
                 histVars, script>>

\* PorcupineWorker.create resolved (lines 263-279): the ref takes the new
\* detector and the subscription is requested.
WakeCreated ==
  /\ sw["create"] > 0
  /\ porcupineRef' = "created"
  /\ sw' = [sw EXCEPT !["create"] = @ - 1, !["subscribe"] = @ + 1]
  /\ Emit(<<>>)
  /\ UNCHANGED <<cfgVars, shareVars, audioVars, mediaVars,
                 isWakeWordListening, connVars, cpc, transport, micPending,
                 wakeTimers, reconnectTimers, now, histVars, script>>

\* WebVoiceProcessor.subscribe resolved (lines 279-281).
WakeSubscribed ==
  /\ sw["subscribe"] > 0
  /\ isWakeWordListening' = TRUE
  /\ porcupineRef' = IF porcupineRef = "created" THEN "subscribed" ELSE porcupineRef
  /\ sw' = [sw EXCEPT !["subscribe"] = @ - 1]
  /\ Emit(<<Log("info", "Wake word engine active")>>)
  /\ UNCHANGED <<cfgVars, shareVars, audioVars, mediaVars, connVars, cpc,
                 transport, micPending, wakeTimers, reconnectTimers, now,
                 histVars, script>>

\* The detector reports the keyword (lines 269-276): stopWakeWord() is
\* called, and connect once the detector is released.
KeywordDetected ==
  /\ porcupineRef = "subscribed"
  /\ Pending < MaxPending
  /\ cpc' = [cpc EXCEPT !["kwStop"] = @ + 1]
  /\ Emit(<<Log("info", "Wake Word detected")>>)
  /\ lastTeardown' = "none"
  /\ UNCHANGED <<cfgVars, shareVars, audioVars, mediaVars, gateVars, connVars,
                 transport, micPending, sw, wakeTimers, reconnectTimers, now,
                 cycleErrors, cycleRetries, script>>

\* The keyword handler's stopWakeWord() resolved: connect(apiKey || '') runs
\* in the same turn (line 274) and finds no detector left.
KeywordConnect ==
  /\ cpc["kwStop"] > 0
  /\ stopWakeWordFinish
  /\ IF ~apiKey
     THEN /\ connectNoKey
          /\ cpc' = [cpc EXCEPT !["kwStop"] = @ - 1]
     ELSE IF connectGuard
     THEN /\ cpc' = [cpc EXCEPT !["kwStop"] = @ - 1]
          /\ Emit(<<>>)
          /\ UNCHANGED <<status, stopRef, isConnectingRef, now>>
     ELSE connectBegin("kwStop")
  /\ lastTeardown' = "none"
  /\ UNCHANGED <<cfgVars, shareVars, audioVars, mediaVars, sessionRef,
                 retryCountRef, transport, micPending, sw, wakeTimers,
                 reconnectTimers, cycleErrors, cycleRetries, script>>

\* ---------------------------------------------------------------- specification
Next ==
  \/ UserConnect
  \/ UserDisconnect
  \/ StartScreenShare
  \/ UserStopScreenShare
  \/ ConnectGateStopped
  \/ ConnectResumed
  \/ \E at \in {"resume", "opening"} : ConnectFailed(at)
  \/ TransportOpen
  \/ MicGranted
  \/ MicFailed
  \/ \E hasAudio, decodeOk, turnComplete \in BOOLEAN :
       TransportMessage(hasAudio, decodeOk, turnComplete)
  \/ PlaybackEnded
  \/ \E from \in {"opening", "open"}, kind \in ErrorKinds :
       TransportError(from, kind)
  \/ \E from \in {"open", "errored"} : TransportClose(from)
  \/ ReconnectTimer
  \/ CaptureFrame
  \/ WakeTimer
  \/ WakeGateStopped
  \/ WakeCreated
  \/ WakeSubscribed
  \/ KeywordDetected
  \/ KeywordConnect

Spec == Init /\ [][Next]_vars

\* The configuration without a detector credential: the wake-word gate is
\* permanently disabled (line 246), so its continuations never run.
InitNoGate == Init /\ ~accessKey

NextNoGate ==
  \/ UserConnect
  \/ UserDisconnect
  \/ StartScreenShare
  \/ UserStopScreenShare
  \/ ConnectResumed
  \/ \E at \in {"resume", "opening"} : ConnectFailed(at)
  \/ TransportOpen
  \/ MicGranted
  \/ MicFailed
  \/ \E hasAudio, decodeOk, turnComplete \in BOOLEAN :
       TransportMessage(hasAudio, decodeOk, turnComplete)
  \/ PlaybackEnded
  \/ \E from \in {"opening", "open"}, kind \in ErrorKinds :
       TransportError(from, kind)
  \/ \E from \in {"open", "errored"} : TransportClose(from)
  \/ ReconnectTimer
  \/ CaptureFrame
  \/ WakeTimer

SpecNoGate == InitNoGate /\ [][NextNoGate]_vars

\* The same configuration with the outputs of every step recorded, and the
\* connection's life alone: connect and disconnect, the transport's
\* callbacks, plain messages, the timers.
InitLogged == InitObserved /\ ~accessKey

NextLogged ==
  \/ UserConnect
  \/ UserDisconnect
  \/ ConnectResumed
  \/ \E at \in {"resume", "opening"} : ConnectFailed(at)
  \/ TransportOpen
  \/ MicGranted
  \/ MicFailed
  \/ \E hasAudio, decodeOk, turnComplete \in BOOLEAN :
       TransportMessage(hasAudio, decodeOk, turnComplete)
  \/ PlaybackEnded
  \/ \E from \in {"opening", "open"}, kind \in ErrorKinds :
       TransportError(from, kind)
  \/ \E from \in {"open", "errored"} : TransportClose(from)
  \/ ReconnectTimer
  \/ WakeTimer

SpecLogged == InitLogged /\ [][NextLogged]_vars

\* Sessions started by the wake word alone, with the outputs of every step
\* recorded, in every configuration.  Without a service credential the page
\* has no connect button (src/App.tsx line 230) and connect is called by
\* the keyword handler only, with '' (line 274).
NextKeyword ==
  \/ StartScreenShare
  \/ ScreenShareFailed
  \/ UserStopScreenShare
  \/ \E sendOk \in BOOLEAN : SendTextMessage(sendOk)
  \/ WakeTimer
  \/ WakeGateStopped
  \/ WakeCreated
  \/ WakeSubscribed
  \/ KeywordDetected
  \/ KeywordConnect
  \/ ConnectResumed
  \/ TransportOpen
  \/ MicGranted
  \/ MicFailed
  \/ UserDisconnect

SpecKeyword == InitObserved /\ [][NextKeyword]_vars

\* Messages that carry an audio fragment and any of the rest: an input
\* transcription, turnComplete, a toolCall of at most one call.
MixedMessages ==
  {m \in [hasAudio : {TRUE}, decodeOk : BOOLEAN, duration : Durations,
          transcript : BOOLEAN, turnComplete : BOOLEAN, hasToolCall : BOOLEAN,
          functionCalls : {c \in Batches : Len(c) <= 1}] :
     m.hasToolCall \/ m.functionCalls = <<>>}

\* Messages that carry a toolCall only.
ToolMessages == {ToolMessage(calls) : calls \in Batches}

\* One session, then one message of any content: what came before it.
BeforeMessage ==
  /\ script = 0
  /\ \/ UserConnect
     \/ ConnectResumed
     \/ TransportOpen
     \/ MicGranted
     \/ MicFailed
     \/ TransportMessage(TRUE, TRUE, FALSE)

\* From here on the message is awaited: nothing of the program changes.
MessageBegin ==
  /\ script = 0
  /\ transport["open"] > 0 /\ ~stopRef
  /\ script' = 1
  /\ Emit(<<>>)
  /\ UNCHANGED <<cfgVars, shareVars, audioVars, mediaVars, gateVars, connVars,
                 loopVars, now, histVars>>

NextMessage ==
  \/ BeforeMessage
  \/ MessageBegin
  \/ /\ script = 1
     /\ \E msg \in MixedMessages \cup ToolMessages, sendOk \in BOOLEAN :
          ReceiveMessage(msg, sendOk)

SpecMessage == InitLogged /\ [][NextMessage]_vars

\* One session in which audio fragments of every duration arrive while the
\* output clock runs and units end.
schedule(duration) ==
  ReceiveMessage(PlainMessage(TRUE, TRUE, FALSE, duration), TRUE)

NextPlayback ==
  \/ UserConnect
  \/ ConnectResumed
  \/ TransportOpen
  \/ MicGranted
  \/ \E duration \in Durations : schedule(duration)
  \/ PlaybackEnded
  \/ Tick

SpecPlayback == InitLogged /\ [][NextPlayback]_vars

\* ----------------------------------------------------------------- PCM codec
hookVars == <<apiKey, accessKey, observe, shareVars, audioVars, mediaVars,
              gateVars, connVars, loopVars, now, emitted, received, histVars,
              script>>

\* The hook is not used; one sample of any value is to be encoded.
InitCodec ==
  /\ Start /\ observe = FALSE /\ apiKey /\ ~accessKey
  /\ data \in {<<x>> : x \in Samples}
  /\ blob = <<>> /\ channelData = <<>>
  /\ NoBuffer /\ NoUrl /\ NoArrival /\ Plain

Encode ==
  /\ data # <<>> /\ blob = <<>>
  /\ blob' = createBlob(data[1])
  /\ UNCHANGED <<hookVars, arrivalVars, sampleRate, chunking,
                 teardownVars, data, channelData, resampleVars, urlVars>>

Decode ==
  /\ blob # <<>> /\ channelData = <<>>
  /\ channelData' = <<decodeAudioData(blob)>>
  /\ UNCHANGED <<hookVars, arrivalVars, sampleRate, chunking,
                 teardownVars, data, blob, resampleVars, urlVars>>

NextCodec == Encode \/ Decode

SpecCodec == InitCodec /\ [][NextCodec]_vars

\* ----------------------------------------------------------------- resampler
\* The hook is not used; one buffer of a device of any rate is resampled.
InitResample ==
  /\ Start /\ observe = FALSE /\ apiKey /\ ~accessKey
  /\ NoSample /\ NoUrl /\ NoArrival /\ Plain
  /\ buffer \in Buffers /\ inputSampleRate \in Rates
  /\ result = <<>>

Resample ==
  /\ inputSampleRate # 0 /\ result = <<>>
  /\ result' = <<downsampleTo16k(buffer, inputSampleRate)>>
  /\ UNCHANGED <<hookVars, arrivalVars, sampleRate, chunking,
                 teardownVars, codecVars, urlVars, buffer, inputSampleRate>>

NextResample == Resample

SpecResample == InitResample /\ [][NextResample]_vars

\* -------------------------------------------------------------------- openUrl
\* The hook is not used; openUrl is called once with a url.
InitUrl ==
  /\ Start /\ observe = FALSE /\ apiKey /\ ~accessKey
  /\ NoSample /\ NoBuffer /\ NoArrival /\ Plain
  /\ argsUrl \in {<<raw>> : raw \in Urls}
  /\ opened = <<>> /\ reported = <<>>

\* The openUrl branch of the tool section (lines 482-518); win: window.open
\* returned a window.
openUrl(win) ==
  /\ argsUrl # <<>> /\ opened = <<>>
  /\ opened' = <<normalise(argsUrl[1])>>
  /\ reported' = IF win THEN <<normalise(argsUrl[1])>> ELSE <<>>
  /\ UNCHANGED <<hookVars, arrivalVars, sampleRate, chunking,
                 teardownVars, codecVars, resampleVars, argsUrl>>

NextUrl == \E win \in BOOLEAN : openUrl(win)

SpecUrl == InitUrl /\ [][NextUrl]_vars

\* ------------------------------------------------------- onmessage's await
\* onmessage up to its await (lines 427-434) for a message with an audio
\* fragment only: the handler is suspended with the fragment.
Arrive(duration, decodeOk) ==
  /\ transport["open"] > 0
  /\ ~stopped
  /\ arrived < MaxArrivals
  /\ status' = "SPEAKING"
  /\ arrived' = arrived + 1
  /\ decoding' = Append(decoding, [n |-> arrived + 1, duration |-> duration,
                                    decodeOk |-> decodeOk])
  /\ Emit(<<>>)
  /\ UNCHANGED <<fixedVars, chunking, teardownVars, started, shareVars,
                 audioVars, mediaVars, gateVars, sessionRef, stopRef,
                 isConnectingRef, retryCountRef, loopVars, now, histVars,
                 script>>

\* Handlers resumed in any order.
resumableAny(queue) == DOMAIN queue

\* The suspended handlers that may resume next.  decodeAudioData has no
\* await of its own, so every handler resumes after the same number of
\* turns of the microtask queue: the oldest first.
resumable(queue) == {k \in DOMAIN queue : k = 1}

\* onmessage after its await (lines 441-462) for one suspended handler.
Resume ==
  \E k \in resumable(decoding) :
    LET f == decoding[k]
    IN /\ playAudio(TRUE, f.decodeOk, f.duration)
       /\ started' = IF f.decodeOk
                     THEN Append(started, [n |-> f.n,
                                           at |-> startTime(nextStartTimeRef, now)])
                     ELSE started
       /\ decoding' = SubSeq(decoding, 1, k - 1) \o SubSeq(decoding, k + 1, Len(decoding))
       /\ Emit(audioOut(PlainMessage(TRUE, f.decodeOk, FALSE, f.duration)))
       /\ UNCHANGED <<fixedVars, chunking, teardownVars, arrived, shareVars,
                      ctxRefs, capRefs, audioBufferRef, currentTheme, gateVars,
                      connVars, loopVars, now, histVars, script>>

\* One session in which several messages may be handed over in one task;
\* other callbacks run while no handler is suspended.
NextArrival ==
  \/ UserConnect
  \/ ConnectResumed
  \/ TransportOpen
  \/ MicGranted
  \/ \E duration \in Durations, decodeOk \in BOOLEAN : Arrive(duration, decodeOk)
  \/ Resume
  \/ decoding = <<>> /\ PlaybackEnded
  \/ decoding = <<>> /\ Tick

SpecArrival == InitLogged /\ [][NextArrival]_vars

\* ------------------------------------------------------------ cleanupAudio
\* The objects whose ref is set: those cleanupAudio calls disconnect() or
\* close() on (lines 180-195).
Held ==
  {o \in AudioObjects :
     \/ o = "processor" /\ processorRef
     \/ o = "source" /\ inputSourceRef
     \/ o = "inputCtx" /\ inputAudioContextRef
     \/ o = "outputCtx" /\ outputAudioContextRef}

\* The pipeline as a session may have built it when cleanupAudio is called:
\* nothing, the two contexts (lines 332-333), or the contexts and the
\* capture graph (lines 375, 382), with units in the live set and samples
\* in the accumulator.
InitTeardown ==
  /\ Start /\ observe = FALSE /\ ~accessKey
  /\ Unused /\ NoArrival /\ NoTeardown
  /\ sampleRate = TargetRate /\ chunking = NoChunks(FALSE)
  /\ inputAudioContextRef \in BOOLEAN
  /\ outputAudioContextRef = inputAudioContextRef
  /\ inputSourceRef \in {FALSE, inputAudioContextRef}
  /\ processorRef = inputSourceRef
  /\ sourcesRef \in IF outputAudioContextRef THEN 0..MaxSources ELSE {0}
  /\ audioBufferRef \in IF processorRef THEN Frames \cup {<<>>} ELSE {<<>>}

\* cleanupAudio called (lines 214, 579): disconnect() and close() are called
\* on the objects whose ref is set (lines 180-195), stop() on the units of
\* the live set inside a try (lines 197-199).
Teardown ==
  /\ cleanups < MaxCleanups
  /\ cleanupAudio
  /\ released' = released \cup Held
  /\ faulted' = (faulted \/ Held \cap released # {})
  /\ cleanups' = cleanups + 1
  /\ afterFirst' = IF cleanups = 0 THEN <<audioVars'>> ELSE afterFirst
  /\ UNCHANGED <<fixedVars, arrivalVars, chunking, shareVars, mediaVars,
                 gateVars, connVars, loopVars, now, emitted, received,
                 histVars, script>>

NextTeardown == Teardown

SpecTeardown == InitTeardown /\ [][NextTeardown]_vars

\* ------------------------------------------------------- stopped callbacks
\* onmessage called while the stop flag is set: the return of line 428.
onmessageStopped(msg) ==
  /\ transport["open"] > 0
  /\ stopped
  /\ emitted' = <<>>
  /\ received' = Out(<<[msg |-> msg]>>)
  /\ UNCHANGED <<cfgVars, shareVars, audioVars, mediaVars, gateVars, connVars,
                 loopVars, now, histVars, script>>

\* onaudioprocess called while the stop flag is set: the return of line 393.
onaudioprocessStopped(frame) ==
  /\ processorRef
  /\ stopped
  /\ emitted' = <<>>
  /\ received' = Out(<<[frame |-> frame]>>)
  /\ UNCHANGED <<cfgVars, shareVars, audioVars, mediaVars, gateVars, connVars,
                 loopVars, now, histVars, script>>

\* The messages a stopped callback is called with: audio, turnComplete, and
\* a toolCall of one call of every kind.
StoppedMessages ==
  {PlainMessage(hasAudio, decodeOk, turnComplete, LongFragment) :
     hasAudio, decodeOk, turnComplete \in BOOLEAN}
    \cup {ToolMessage(<<call>>) : call \in Calls}

\* The frames of these sessions: of silence, and loud.
StoppedFrames == {<<Run(FrameSamples, v)>> : v \in {0, 100000}}

\* Sessions that the user or the server ends while the transport still
\* delivers messages and the capture node still delivers frames.
NextStopped ==
  \/ UserConnect
  \/ UserDisconnect
  \/ ConnectResumed
  \/ TransportOpen
  \/ MicGranted
  \/ TransportMessage(TRUE, TRUE, FALSE)
  \/ \E msg \in StoppedMessages : onmessageStopped(msg)
  \/ PlaybackEnded
  \/ TransportClose("open")
  \/ \E frame \in StoppedFrames : onaudioprocess(frame)
  \/ \E frame \in StoppedFrames : onaudioprocessStopped(frame)
  \/ WakeTimer

SpecStopped == InitLogged /\ [][NextStopped]_vars

\* source.onended of a unit that played to its end: units play one after
\* the other, and the last one of the live set ends where the cursor stands.
PlaybackEndedOnTime ==
  /\ sourcesRef = 1 => now >= nextStartTimeRef
  /\ PlaybackEnded

\* Sessions, one after the other, in which fragments arrive, the clock of
\* the output context runs and units play to their end.
NextReplay ==
  \/ UserConnect
  \/ UserDisconnect
  \/ ConnectResumed
  \/ TransportOpen
  \/ MicGranted
  \/ \E duration \in Durations : schedule(duration)
  \/ PlaybackEndedOnTime
  \/ TransportClose("open")
  \/ Tick
  \/ WakeTimer

SpecReplay == InitLogged /\ [][NextReplay]_vars

\* One session that receives audio fragments only, which decode or not, and
\* no turnComplete; it is neither closed nor disconnected.
NextSpeaking ==
  \/ UserConnect
  \/ ConnectResumed
  \/ TransportOpen
  \/ MicGranted
  \/ \E duration \in Durations, decodeOk \in BOOLEAN :
       ReceiveMessage(PlainMessage(TRUE, decodeOk, FALSE, duration), TRUE)
  \/ PlaybackEndedOnTime
  \/ Tick

\* The clock of the output context runs, and a unit whose end the clock
\* has reached fires its ended event.
SpecSpeaking ==
  /\ InitNoGate
  /\ [][NextSpeaking]_vars
  /\ WF_vars(Tick)
  /\ WF_vars(PlaybackEndedOnTime)

\* One session whose capture device delivers frames of every kind.
NextCapture ==
  \/ UserConnect
  \/ ConnectResumed
  \/ TransportOpen
  \/ MicGranted
  \/ \E frame \in Frames : onaudioprocess(frame)

SpecCapture == InitLogged /\ [][NextCapture]_vars

\* One session on a capture device of any of the rates, with the history of
\* the capture callback.
InitChunking ==
  /\ Start /\ observe = TRUE /\ ~accessKey
  /\ Unused /\ NoArrival
  /\ sampleRate \in DeviceRates
  /\ chunking = NoChunks(TRUE)
  /\ NoAudio /\ NoTeardown

NextChunking ==
  \/ UserConnect
  \/ ConnectResumed
  \/ TransportOpen
  \/ MicGranted
  \/ \E frame \in FramesAt(sampleRate) : onaudioprocess(frame)

SpecChunking == InitChunking /\ [][NextChunking]_vars

\* ------------------------------------------------------------------ C1
\* C1: the wake-word gate is not listening (no detector exists, none is
\* subscribed) while a session handle exists or a connection attempt is in
\* flight.
GateSessionExclusive ==
  (sessionRef \/ isConnectingRef) =>
    (porcupineRef = "null" /\ ~isWakeWordListening)

\* ------------------------------------------------------------------ C2
\* C2: at most one outbound transport session exists at any time: none is
\* opened while an earlier one is open or being opened.
OneTransport == transport["opening"] + transport["open"] <= 1

\* ------------------------------------------------------------------ C3
\* A connect() invocation is in flight: invoked, its transport neither
\* opened nor failed yet.
InFlight == cpc["stopWake"] + cpc["resume"] + transport["opening"] > 0

\* A step in which connect() is entered.
ConnectCalled == UserConnect \/ ReconnectTimer \/ KeywordConnect

\* C3: a connect call issued while an earlier attempt is in flight is a
\* no-op: it starts no attempt and leaves status, session handle,
\* isConnecting, retry counter, stop flag and audio graph unchanged.
ConnectGuarded ==
  [][(InFlight /\ ConnectCalled) =>
       /\ cpc'["stopWake"] = cpc["stopWake"]
       /\ cpc'["resume"] = cpc["resume"]
       /\ UNCHANGED <<connVars, audioVars, transport>>]_vars

\* ------------------------------------------------------------------ C4
\* The happy path, followed from any idle state with nothing pending: a
\* fresh page whose gate is at any stage of starting, or, without a detector
\* credential, any such state left by earlier sessions.
HappyStart ==
  /\ apiKey
  /\ status = "IDLE"
  /\ Alive = 0 /\ micPending = 0
  /\ wakeTimers = 0 /\ reconnectTimers = 0
  /\ sourcesRef = 0

\* From here on the scenario is followed: nothing of the program changes.
ScenarioBegin ==
  /\ script = 0
  /\ HappyStart
  /\ script' = 1
  /\ Emit(<<>>)
  /\ UNCHANGED <<cfgVars, shareVars, audioVars, mediaVars, gateVars, connVars,
                 loopVars, now, histVars>>

\* What came before the scenario.
Earlier ==
  /\ script = 0
  /\ IF accessKey THEN WakeCreated \/ WakeSubscribed ELSE NextNoGate

\* The scenario: connect, the transport opens and capture starts, one audio
\* fragment arrives, its playback completes; no other event.
NextHappy ==
  \/ Earlier
  \/ ScenarioBegin
  \/ script = 1 /\ UserConnect
  \/ script = 2 /\ ConnectGateStopped
  \/ script = 2 /\ ConnectResumed
  \/ script = 2 /\ TransportOpen
  \/ script >= 3 /\ MicGranted
  \/ script >= 3 /\ CaptureFrame
  \/ script = 3 /\ TransportMessage(TRUE, TRUE, FALSE)
  \/ script = 4 /\ PlaybackEnded

SpecHappy == Init /\ [][NextHappy]_vars

\* C4: on the happy path status is CONNECTING once connect has begun its
\* attempt, LISTENING once the transport opened, SPEAKING once the audio
\* fragment arrived and LISTENING again once its playback completed.
HappyPathStatus ==
  /\ (script = 2 /\ cpc["stopWake"] = 0) => status = "CONNECTING"
  /\ script = 3 => status = "LISTENING"
  /\ script = 4 => status = "SPEAKING"
  /\ script = 5 => status = "LISTENING"

HappyPathDone ==
  script = 5 /\ status = "LISTENING" /\ processorRef /\ accessKey

\* ------------------------------------------------------------------ C5
\* C5: within one connect cycle, that is between two resets of the retry
\* state (a successful open, a user disconnect), transient network errors
\* schedule exactly one reconnect: the first does, every later one does
\* not; each leaves status ERROR; and an attempt begins only in a connect
\* call from the user or from that one timer.
RetryBound ==
  /\ [](cycleErrors >= 1 => cycleRetries = 1)
  /\ [][(\E from \in {"opening", "open"} : TransportError(from, "network")) =>
          /\ status' = "ERROR"
          /\ cycleErrors >= 1 => reconnectTimers' = reconnectTimers]_vars
  /\ [][reconnectTimers' > reconnectTimers => cycleErrors = 0]_vars
  /\ [][cpc'["resume"] > cpc["resume"] => UserConnect \/ ReconnectTimer]_vars

SecondErrorTerminal ==
  /\ cycleErrors = 2 /\ cycleRetries = 1
  /\ status = "ERROR"
  /\ reconnectTimers = 0 /\ Alive = 0

\* ------------------------------------------------------------------ C6
\* C6: a user disconnect leaves status IDLE, no session handle, isConnecting
\* false, the retry counter 0, the stop flag set, the live set and the
\* accumulator empty, every capture and audio resource released and screen
\* sharing stopped.
DisconnectPost ==
  [][UserDisconnect =>
       /\ status' = "IDLE"
       /\ ~sessionRef' /\ ~isConnectingRef' /\ retryCountRef' = 0 /\ stopRef'
       /\ sourcesRef' = 0 /\ audioBufferRef' = <<>>
       /\ ~processorRef' /\ ~inputSourceRef'
       /\ ~inputAudioContextRef' /\ ~outputAudioContextRef'
       /\ ~isScreenSharing' /\ ~screenStream' /\ ~videoIntervalRef']_vars

Disconnected ==
  /\ lastTeardown = "user" /\ status = "IDLE" /\ stopRef /\ ~sessionRef
  /\ transport["open"] = 1 /\ wakeTimers = 1
  /\ sourcesRef = 0 /\ audioBufferRef = <<>> /\ ~processorRef /\ ~isScreenSharing

\* ------------------------------------------------------------------ C7
\* C7: after a user disconnect and until the next connect call, status
\* stays IDLE, no session handle is set, no capture runs and no playback
\* unit is scheduled, whatever callback of the torn-down attempt fires.
NoResurrection ==
  lastTeardown = "user" =>
    /\ status = "IDLE"
    /\ ~sessionRef
    /\ ~processorRef
    /\ sourcesRef = 0

\* ------------------------------------------------------------------ C8
\* C8: after a user disconnect the pending reconnect timer starts no
\* connection attempt.
ReconnectCancelled ==
  [][(lastTeardown = "user" /\ ReconnectTimer) =>
       UNCHANGED <<cpc, status, isConnectingRef, stopRef>>]_vars

\* ------------------------------------------------------------------ C9
\* Nothing that could still start the gate or a connection is pending.
GateSettled ==
  /\ wakeTimers = 0 /\ SwTotal = 0
  /\ cpc["kwStop"] + cpc["stopWake"] + cpc["resume"] = 0

\* C9: after the server closed the transport of an active session, with
\* the detector credential set and no connect issued since, the gate ends up
\* listening: once nothing that could start it is pending, it is listening.
\* (That onclose sets status IDLE is TransportClose itself.)
GateRestartsAfterClose ==
  (lastTeardown = "server" /\ accessKey /\ GateSettled) => isWakeWordListening

\* ------------------------------------------------------------------ C10
\* C10: after a user disconnect, with the detector credential set and no
\* connect issued since, the gate ends up listening: once nothing that
\* could start it is pending, it is listening.
GateRestartsAfterDisconnect ==
  (lastTeardown = "user" /\ accessKey /\ GateSettled) => isWakeWordListening

\* ------------------------------------------------------------------ C11
\* No connect() invocation is in progress and no reconnect is pending.
NothingConnecting ==
  /\ reconnectTimers = 0
  /\ cpc["kwStop"] + cpc["stopWake"] + cpc["resume"] = 0
  /\ transport["opening"] = 0

\* A step of onmessage or of a unit's onended.
MessageOrPlayback ==
  \/ \E hasAudio, decodeOk, turnComplete \in BOOLEAN :
       TransportMessage(hasAudio, decodeOk, turnComplete)
  \/ PlaybackEnded

\* C11: once status is ERROR, with no automatic reconnect pending and no
\* connect in progress, no received message, turn-complete signal or
\* playback-ended callback moves status out of ERROR.
ErrorTerminal ==
  [][(status = "ERROR" /\ NothingConnecting /\ MessageOrPlayback)
       => status' = "ERROR"]_vars

\* ------------------------------------------------------------------ C12
\* C12: when acquiring the microphone fails after the transport opened,
\* status becomes ERROR, one error entry carrying the reason is logged, no
\* reconnect is scheduled, the retry counter is unchanged and the transport
\* is not touched: none is closed, no connect is issued, the session handle
\* stays.
MicDenial ==
  [][\A reason \in MicReasons :
       MicFailedWith(reason) =>
         /\ status' = "ERROR"
         /\ ErrorsOf(emitted') = <<LogArg("error", "Microphone Error", reason)>>
         /\ UNCHANGED <<reconnectTimers, retryCountRef, transport, cpc,
                        sessionRef>>]_vars

MicDenied ==
  /\ status = "ERROR" /\ sessionRef /\ transport["open"] = 1
  /\ ~stopRef /\ lastTeardown = "none"
  /\ micPending = 0 /\ ~processorRef
  /\ reconnectTimers = 0 /\ retryCountRef = 0
  /\ ErrorsOf(emitted) = <<LogArg("error", "Microphone Error", "Permission denied")>>

\* ------------------------------------------------------------------ C13
\* C13: connect called with an empty credential sets status to ERROR,
\* appends exactly one error log entry and does nothing else: it opens no
\* transport, schedules no retry, does not begin to stop the gate (the
\* detector was released by the keyword handler that calls it), and leaves
\* isConnecting, the session handle, the retry counter, the stop flag and
\* the audio graph unchanged.
NoKeyConnect ==
  [][(KeywordConnect /\ ~apiKey) =>
       /\ status' = "ERROR"
       /\ emitted' = <<Log("error", "API Key missing")>>
       /\ cpc'["stopWake"] = cpc["stopWake"] /\ cpc'["resume"] = cpc["resume"]
       /\ UNCHANGED <<isConnectingRef, sessionRef, retryCountRef, stopRef,
                      transport, micPending, reconnectTimers, wakeTimers, sw,
                      audioVars>>]_vars

NoKeyReported ==
  /\ ~apiKey /\ status = "ERROR"
  /\ emitted = <<Log("error", "API Key missing")>>
  /\ ~isConnectingRef /\ ~sessionRef /\ ~stopRef
  /\ Alive = 0

\* ------------------------------------------------------------------ C14
\* C14: a transport error whose message contains 'closed' produces no
\* error-level log entry and is treated as normal lifecycle: status becomes
\* IDLE, not ERROR, and the restart of the wake-word gate is scheduled.
BenignClosure ==
  [][\A from \in {"opening", "open"} :
       TransportError(from, "closed") =>
         /\ ErrorsOf(emitted') = <<>>
         /\ status' = "IDLE"
         /\ wakeTimers' = wakeTimers + 1]_vars

\* ------------------------------------------------------------------ C15
\* The step in which the awaited message is received.
MessageStep == script = 1 /\ script' = 2

IsAudioError(e) == e.kind = "log" /\ e.text = "Audio playback error"

IsTranscript(e) == e.kind = "log" /\ e.text = "You:"

\* C15: when decoding a received audio fragment fails, one error entry is
\* logged for it, the fragment is dropped (no unit is started, the live set
\* and nextStartTime are unchanged), the session handle is kept, status does
\* not become ERROR, and the rest of the message is processed: the
\* transcription is logged, turnComplete sets LISTENING, the tool calls are
\* answered.
DecodeAbsorbed ==
  [][(MessageStep /\ received'[1].msg.hasAudio /\ ~received'[1].msg.decodeOk) =>
       LET msg == received'[1].msg
           responses == SelectSeq(emitted', IsToolResponse)
       IN /\ emitted'[1] = Log("error", "Audio playback error")
          /\ Len(SelectSeq(emitted', IsAudioError)) = 1
          /\ SelectSeq(emitted', IsStart) = <<>>
          /\ UNCHANGED <<sourcesRef, nextStartTimeRef, sessionRef, transport>>
          /\ status' = IF msg.turnComplete THEN "LISTENING" ELSE "SPEAKING"
          /\ Len(SelectSeq(emitted', IsTranscript)) = IF msg.transcript THEN 1 ELSE 0
          /\ Len(responses) = IF msg.hasToolCall THEN 1 ELSE 0
          /\ msg.hasToolCall =>
               Len(responses[1].functionResponses) = Len(msg.functionCalls)]_vars

DecodeDropped ==
  /\ script = 2
  /\ received[1].msg.hasAudio /\ ~received[1].msg.decodeOk
  /\ received[1].msg.transcript /\ received[1].msg.turnComplete
  /\ Len(received[1].msg.functionCalls) = 1
  /\ status = "LISTENING" /\ sessionRef
  /\ sourcesRef = 1 /\ nextStartTimeRef = LongFragment

\* ------------------------------------------------------------------ C16
IsExecuting(e) == e.kind = "log" /\ e.text = "Executing tool"

\* C16: for a batch of N tool calls received in one message, sendToolResponse
\* is called exactly once, with exactly N results, the i-th having the id
\* and the name of the i-th call; the result of a call that throws, and of
\* no other, is an error payload; and every call of the batch is executed,
\* those after a throwing one included: each is announced in the log, and a
\* changeTheme that does not throw sets the theme.
ToolDispatchComplete ==
  [][(MessageStep /\ received'[1].msg.hasToolCall) =>
       LET calls == received'[1].msg.functionCalls
           responses == SelectSeq(emitted', IsToolResponse)
           executing == SelectSeq(emitted', IsExecuting)
       IN /\ Len(responses) = 1
          /\ Len(responses[1].functionResponses) = Len(calls)
          /\ Len(executing) = Len(calls)
          /\ \A i \in 1..Len(calls) :
               LET r == responses[1].functionResponses[i]
               IN /\ r.id = calls[i].id
                  /\ r.name = calls[i].name
                  /\ r.result = "error" <=> calls[i].env = "throws"
                  /\ executing[i].arg = calls[i].name
                  /\ (/\ calls[i].name = "changeTheme"
                      /\ calls[i].env # "throws"
                      /\ \A j \in (i + 1)..Len(calls) :
                           calls[j].name # "changeTheme" \/ calls[j].env = "throws")
                     => currentTheme' = calls[i].env]_vars

ThrowingBatchAnswered ==
  /\ script = 2
  /\ received[1].msg.hasToolCall
  /\ Len(received[1].msg.functionCalls) = MaxBatch
  /\ received[1].msg.functionCalls[1].env = "throws"
  /\ received[1].msg.functionCalls[MaxBatch].name = "changeTheme"
  /\ received[1].msg.functionCalls[MaxBatch].env = "light"
  /\ currentTheme = "light"
  /\ \E i \in 1..Len(emitted) :
       /\ IsToolResponse(emitted[i])
       /\ emitted[i].functionResponses[1].result = "error"
       /\ emitted[i].functionResponses[MaxBatch].result = "themeChangedTo"

\* ------------------------------------------------------------------ C17
\* C17: processing a tool-call batch, also one in which a tool throws or
\* whose response cannot be sent, changes neither the session handle,
\* isConnecting, the retry counter nor the stop flag, schedules no reconnect,
\* starts no connect, touches no transport, and leaves status as the rest of
\* the message set it: unchanged when the message carries the toolCall only.
ToolErrorsLocal ==
  [][(MessageStep /\ received'[1].msg.hasToolCall) =>
       LET msg == received'[1].msg
       IN /\ status' = IF msg.turnComplete THEN "LISTENING"
                       ELSE IF msg.hasAudio THEN "SPEAKING"
                       ELSE status
          /\ UNCHANGED <<sessionRef, isConnectingRef, retryCountRef, stopRef,
                         reconnectTimers, wakeTimers, cpc, transport>>]_vars

ToolFailureKept ==
  /\ script = 2
  /\ received[1].msg.hasToolCall /\ ~received[1].msg.hasAudio
  /\ ~received[1].sendOk
  /\ \E i \in 1..Len(received[1].msg.functionCalls) :
       received[1].msg.functionCalls[i].env = "throws"
  /\ status = "LISTENING" /\ sessionRef /\ ~isConnectingRef
  /\ reconnectTimers = 0 /\ transport["open"] = 1

\* ------------------------------------------------------------------ C18
\* A step that received a fragment and decoded it.
ScheduleStep ==
  /\ received' # <<>>
  /\ received'[1].msg.hasAudio /\ received'[1].msg.decodeOk

\* The unit of the spec's example: scheduled at now = 0 with the cursor at
\* `cursor`, a fragment of `duration` starts at `at`.
ExampleUnit(cursor, duration, at) ==
  (now = 0 /\ nextStartTimeRef = cursor /\ received'[1].msg.duration = duration)
    => emitted'[1].at = at /\ nextStartTimeRef' = at + duration

\* C18: scheduling a decoded fragment starts the unit at the later of
\* nextStartTime and now, sets nextStartTime to that start plus the
\* fragment's duration and adds one unit to the live set; at now = 0 the
\* durations 1.0, 0.5, 2.0 s get the starts 0.0, 1.0, 1.5 s; a unit scheduled
\* while the cursor is not behind now starts exactly where the unit before
\* it ends.
PlaybackSchedule ==
  [][ScheduleStep =>
       LET unit == emitted'[1]
       IN /\ IsStart(unit)
          /\ unit.duration = received'[1].msg.duration
          /\ unit.at >= nextStartTimeRef /\ unit.at >= now
          /\ unit.at \in {nextStartTimeRef, now}
          /\ nextStartTimeRef' = unit.at + unit.duration
          /\ sourcesRef' = sourcesRef + 1
          /\ nextStartTimeRef >= now => unit.at = nextStartTimeRef
          /\ ExampleUnit(0, 2, 0)
          /\ ExampleUnit(2, 1, 2)
          /\ ExampleUnit(3, 4, 3)]_vars

\* The third unit of the example has been scheduled; the clock stands at 0.
ExampleScheduled ==
  /\ now = 0 /\ sourcesRef = 3
  /\ emitted = <<[kind |-> "start", at |-> 3, duration |-> 4]>>
  /\ nextStartTimeRef = 7

\* ------------------------------------------------------------------ C19
\* A capture step that sliced a chunk off the accumulator.
ChunkStep ==
  /\ received' # <<>>
  /\ RunLength(Concat(audioBufferRef, received'[1].frame)) >= BUFFER_THRESHOLD

\* Every sample of the samples is 0.
AllZero(rs) == \A i \in 1..Len(rs) : rs[i].v = 0

\* Some sample of the samples has a magnitude of 0.01 or more.
SomeLoud(rs) == \E i \in 1..Len(rs) : rs[i].v >= 100000 \/ rs[i].v <= -100000

\* C19: a chunk of 4096 samples that are all zero is not transmitted, and a
\* chunk of 4096 samples of which at least one has a magnitude of 0.01 or
\* more is transmitted, whole and unchanged.
SilenceGating ==
  [][ChunkStep =>
       LET chunk == SliceTo(Concat(audioBufferRef, received'[1].frame),
                            BUFFER_THRESHOLD)
       IN /\ RunLength(chunk) = BUFFER_THRESHOLD
          /\ AllZero(chunk) => emitted' = <<>>
          /\ SomeLoud(chunk) => emitted' = <<[kind |-> "media", chunk |-> chunk]>>]_vars

\* A chunk with one sample of 0.01 among silence has been transmitted.
LoudSampleSent ==
  /\ received # <<>>
  /\ emitted = <<[kind |-> "media",
                  chunk |-> <<Run(1, 100000), Run(BUFFER_THRESHOLD - 1, 0)>>]>>
  /\ audioBufferRef = <<>>

\* ------------------------------------------------------------------ C20
\* C20: a sample in [-1, 1] that is encoded by createBlob and decoded by
\* decodeAudioData differs from the decoded value by at most one quantisation
\* step, 1 / 32768.
RoundTripWithinStep ==
  channelData # <<>> =>
    LET perStep == SampleSteps \div PcmScale
        diff == data[1] - perStep * channelData[1]
    IN diff <= perStep /\ 0 - diff <= perStep

UrlNormalised ==
  opened # <<>> =>
    /\ toLowerCase(opened[1]) = opened[1]
    /\ ~includes(opened[1], " ")
    /\ startsWith(opened[1], Http) \/ startsWith(opened[1], Https)
    /\ reported # <<>> => reported = opened
    /\ argsUrl[1] = Reddit =>
         opened[1] = Https \o <<"r", "e", "d", "d", "i", "t">> \o DotCom
    /\ argsUrl[1] = FaceBook =>
         opened[1] = Https \o <<"f", "a", "c", "e", "b", "o", "o", "k">> \o DotCom

\* ------------------------------------------------------------------ C23
\* A step of onmessage for a message that carries turnComplete.
TurnComplete ==
  \E hasAudio, decodeOk \in BOOLEAN : TransportMessage(hasAudio, decodeOk, TRUE)

\* C23: status becomes LISTENING only by a transport opening while status is
\* CONNECTING, by the live set draining while status is SPEAKING, or by a
\* turn-complete signal while status is LISTENING, SPEAKING or THINKING;
\* never from IDLE, ERROR or CONNECTING by a unit's end or a turn-complete
\* signal.
ListeningEntry ==
  [][(status # "LISTENING" /\ status' = "LISTENING") =>
       \/ TransportOpen /\ status = "CONNECTING"
       \/ PlaybackEnded /\ status = "SPEAKING"
       \/ TurnComplete /\ status \in {"SPEAKING", "THINKING"}]_vars

\* ------------------------------------------------------------------ C24
\* C24: a transport error schedules a reconnect exactly when its message has
\* the network-error signature and the retry counter is 0; every transport
\* error sets status ERROR and clears isConnecting; an error without the
\* signature schedules nothing and leaves the retry counter unchanged.
RetryCondition ==
  [][\A from \in {"opening", "open"}, kind \in ErrorKinds :
       TransportError(from, kind) =>
         /\ status' = "ERROR" /\ ~isConnectingRef'
         /\ reconnectTimers' =
              IF kind = "network" /\ retryCountRef = 0
              THEN reconnectTimers + 1 ELSE reconnectTimers
         /\ kind # "network" => retryCountRef' = retryCountRef]_vars

\* A first network error has scheduled the reconnect.
RetryScheduled ==
  /\ status = "ERROR" /\ ~isConnectingRef
  /\ retryCountRef = 1 /\ reconnectTimers = 1
  /\ emitted = <<LogArg("error", "Connection Error", "network"),
                 Log("info", "Attempting auto-reconnect in 2s...")>>

\* ------------------------------------------------------------------ C25
\* C25: the retry counter is 0 or 1 in every reachable state; it grows only
\* in a transport error with the network-error signature seen while it is
\* 0; every transport open and every user disconnect sets it to 0.
RetryDiscipline ==
  /\ [](retryCountRef \in {0, 1})
  /\ [][retryCountRef' > retryCountRef =>
          /\ retryCountRef = 0 /\ retryCountRef' = 1
          /\ \E from \in {"opening", "open"} : TransportError(from, "network")]_vars
  /\ [][TransportOpen => retryCountRef' = 0]_vars
  /\ [][UserDisconnect => retryCountRef' = 0]_vars

\* The reconnect after a first network error is under way.
RetryCounted ==
  /\ retryCountRef = 1
  /\ status = "CONNECTING" /\ transport["opening"] = 1
  /\ emitted = <<>>

\* ------------------------------------------------------------------ C26
\* The names the tool section has a branch for (lines 482-541).
KnownTools == {"openUrl", "googleSearch", "changeTheme", "getSystemStatus"}

\* C26: a call whose name is none of openUrl, googleSearch, changeTheme,
\* getSystemStatus gets a result that says the tool is unsupported, not a
\* success result, and the batch still has exactly one result for it.
UnknownToolUnsupported ==
  [][(MessageStep /\ received'[1].msg.hasToolCall) =>
       LET calls == received'[1].msg.functionCalls
           responses == SelectSeq(emitted', IsToolResponse)
       IN /\ Len(responses) = 1
          /\ Len(responses[1].functionResponses) = Len(calls)
          /\ \A i \in 1..Len(calls) :
               calls[i].name \notin KnownTools =>
                 /\ responses[1].functionResponses[i].id = calls[i].id
                 /\ responses[1].functionResponses[i].result = "unsupported"]_vars

\* ------------------------------------------------------------------ C27
\* C27: fragments are scheduled in the order in which their messages
\* arrived, although each handler is suspended on the decoding before it
\* schedules; the starts of successive fragments do not decrease, and
\* nextStartTime never decreases.
ArrivalOrder ==
  /\ [](\A i, j \in 1..Len(started) :
          i < j => started[i].n < started[j].n /\ started[i].at <= started[j].at)
  /\ [][nextStartTimeRef' >= nextStartTimeRef]_vars

\* Three fragments were received before the first handler resumed, the
\* second could not be decoded, and the other two have started.
LateResumed ==
  /\ arrived = 3 /\ decoding = <<>>
  /\ Len(started) = 2
  /\ started[1].n = 1 /\ started[2].n = 3
  /\ started[2].at = started[1].at + 1
  /\ sourcesRef = 2

\* ------------------------------------------------------------------ C28
\* C28: after the capture callback returns, the accumulator holds fewer
\* than 4096 samples, whatever the length of the resampled frame.
AccumulatorBound == RunLength(audioBufferRef) < BUFFER_THRESHOLD

\* ------------------------------------------------------------------ C29
\* C29: within one session every sliced chunk has exactly 4096 samples; the
\* sliced chunks, transmitted or not, in the order of slicing, followed by
\* the accumulator, are the resampled frames in the order of arrival; and
\* the transmitted chunks reach the session in the order of slicing.
SampleConservation ==
  /\ \A i \in 1..Len(chunking.chunks) :
       RunLength(chunking.chunks[i]) = BUFFER_THRESHOLD
  /\ Concat(Flatten(chunking.chunks), audioBufferRef) = chunking.frames
  /\ IsSubSeq(chunking.sent, chunking.chunks)

\* At 11025 Hz four frames gave two chunks, the first of silence and not
\* transmitted, the second transmitted, and 3700 samples are left over.
TwoChunksSliced ==
  /\ sampleRate = 11025 /\ chunking.count = 4
  /\ Len(chunking.chunks) = 2
  /\ chunking.sent = <<chunking.chunks[2]>>
  /\ chunking.chunks[1] # chunking.chunks[2]
  /\ RunLength(audioBufferRef) = 3700

\* ------------------------------------------------------------------ C30
\* C30: cleanupAudio called twice in a row leaves the state one call
\* leaves: the capture nodes and the contexts null, the live set and the
\* accumulator empty; called when all is torn down it changes nothing; and
\* no call is made on an object that was released before.
TeardownIdempotent ==
  cleanups > 0 =>
    /\ Held = {} /\ sourcesRef = 0 /\ audioBufferRef = <<>>
    /\ afterFirst = <<audioVars>>
    /\ ~faulted

\* cleanupAudio ran twice on a pipeline with the capture graph, units in
\* the live set and samples in the accumulator.
TornDownTwice ==
  /\ cleanups = 2
  /\ released = AudioObjects
  /\ Held = {} /\ sourcesRef = 0 /\ audioBufferRef = <<>>

\* ------------------------------------------------------------------ C31
\* A callback of the transport or of the capture node is called while the
\* stop flag is set.
StoppedCall == stopRef /\ received' # <<>>

\* C31: while the stop flag is set, a capture callback leaves the
\* accumulator as it is and transmits nothing, and a message callback
\* changes no state: no status, no playback unit, no log entry, no tool
\* executed, no tool response.
StopShortCircuits ==
  [][StoppedCall =>
       /\ emitted' = <<>>
       /\ UNCHANGED <<cfgVars, shareVars, audioVars, mediaVars, gateVars,
                      connVars, loopVars, now, histVars, script>>]_vars

\* After the server closed the transport, the capture node, still wired
\* in, delivered a loud frame onto half a chunk: nothing was transmitted.
StoppedFrameDropped ==
  /\ stopRef /\ processorRef
  /\ received = <<[frame |-> <<Run(FrameSamples, 100000)>>]>>
  /\ RunLength(audioBufferRef) = FrameSamples
  /\ emitted = <<>>

\* After a user disconnect the transport, still open, delivered a toolCall
\* that asks for the light theme: the theme and the status are as before.
StoppedToolCallDropped ==
  /\ stopRef /\ status = "IDLE" /\ currentTheme = "dark"
  /\ received # <<>>
  /\ received[1].msg.hasToolCall
  /\ themeAfter(currentTheme, received[1].msg.functionCalls) = "light"
  /\ emitted = <<>>

\* ------------------------------------------------------------------ C32
\* C32: the gate changes from not listening to listening only in a state
\* where status is IDLE, the session handle is null, no connection attempt
\* is in flight and a detector credential is configured; without a
\* credential startWakeWord changes no state and appends no log entry.
GateStartPreconditions ==
  /\ [][(~isWakeWordListening /\ isWakeWordListening') =>
          /\ status = "IDLE"
          /\ ~sessionRef
          /\ ~isConnectingRef
          /\ accessKey]_vars
  /\ [][(~accessKey /\ WakeTimer) =>
          /\ emitted' = <<>>
          /\ UNCHANGED <<cfgVars, shareVars, audioVars, mediaVars, gateVars,
                         connVars, sw, now>>]_vars

\* ------------------------------------------------------------------ C33
\* C33: in every reachable state isConnecting is true exactly when status
\* is CONNECTING.
ConnectingTracksStatus == isConnectingRef <=> status = "CONNECTING"

\* ------------------------------------------------------------------ C34
\* C34: whenever status is IDLE the session handle is null, the capture
\* graph and the audio contexts are released and the live set is empty.
IdleReleased ==
  status = "IDLE" =>
    /\ ~sessionRef
    /\ ~inputSourceRef /\ ~processorRef
    /\ ~inputAudioContextRef /\ ~outputAudioContextRef
    /\ sourcesRef = 0

\* ------------------------------------------------------------------ C35
\* C35: while a session is active (the stop flag clear, status not ERROR,
\* IDLE or CONNECTING) and the live set is not empty, status is SPEAKING.
StatusReflectsPlayback ==
  (~stopRef /\ status \notin {"ERROR", "IDLE", "CONNECTING"} /\ sourcesRef > 0)
    => status = "SPEAKING"

\* ------------------------------------------------------------------ C36
\* C36: a unit scheduled while the live set is empty starts at the current
\* time of the output timeline, also the first unit of a session opened
\* after an earlier session has played audio.
NoStartDelay ==
  [][(ScheduleStep /\ sourcesRef = 0) => emitted'[1].at = now]_vars

\* The first unit of a second session was scheduled at time 0 of the new
\* timeline and starts where the cursor of the first session stood.
DelayedStart ==
  /\ lastTeardown = "none" /\ sessionRef /\ sourcesRef = 1 /\ now = 0
  /\ emitted # <<>> /\ IsStart(emitted[1])
  /\ emitted[1].at > 0
  /\ transport["open"] = 1 /\ Alive = 1

\* ------------------------------------------------------------------ C37
\* C37: in an active session that is not closed, whenever status is
\* SPEAKING it becomes LISTENING once every scheduled unit has played,
\* although no turnComplete is received and although the fragment that set
\* SPEAKING could not be decoded.
SpeakingEnds == (status = "SPEAKING") ~> (status = "LISTENING")

====
